---- MODULE Spec2Model ----
(***************************************************************************)
(* A model of the command handlers of the Rusticos2 key-value server:      *)
(* the string family (comando_string_handler.rs) and the pub/sub family    *)
(* (comando_pubsub_handler.rs) running on connection threads against the   *)
(* shared, mutex-protected BaseDeDatos.                                    *)
(*                                                                         *)
(* Every `bdd.lock().unwrap().op(..)` of the source takes the lock for one *)
(* statement only, so each such statement is one atomic step of the thread *)
(* that runs it; the code between two of them is local to the thread and   *)
(* is folded into the step that precedes it.                               *)
(*                                                                         *)
(* Text is a sequence of one-character strings, so that concatenation,     *)
(* length, str::parse::<i32> and i32::to_string are computed, not assumed. *)
(***************************************************************************)
EXTENDS Integers, Sequences, FiniteSets, TLC

----------------------------------------------------------------------------
(* Bounds of the model *)

\* commands the connection threads take, all together, before they stop
MaxCmds == 3

\* the mutations of the store and the messages to the persistence actor
MaxAvisos == 2

\* the time the clock reaches
MaxReloj == 2

----------------------------------------------------------------------------
(* i32 *)

I32_MAX == 2147483647
I32_MIN == -I32_MAX - 1

Digits == <<"0", "1", "2", "3", "4", "5", "6", "7", "8", "9">>

IsDigit(ch) == \E i \in 1..10 : Digits[i] = ch

DigitVal(ch) == (CHOOSE i \in 1..10 : Digits[i] = ch) - 1

\* The digits of a string accumulated as a non-positive number, the way
\* core::num accumulates them with checked_mul / checked_sub; "bad" on the
\* first non-digit, "overflow" as soon as the magnitude leaves the i32 range.
RECURSIVE AccumNeg(_, _, _)
AccumNeg(s, i, acc) ==
    IF i > Len(s) THEN [ok |-> TRUE, n |-> acc]
    ELSE IF ~IsDigit(s[i]) THEN [ok |-> FALSE, n |-> 0]
    ELSE LET d == DigitVal(s[i]) IN
         IF acc < -214748364 \/ (acc = -214748364 /\ d > 8)
         THEN [ok |-> FALSE, n |-> 0]
         ELSE AccumNeg(s, i + 1, acc * 10 - d)

\* str::parse::<i32>(): an optional sign, then at least one digit, nothing else
parse_i32(s) ==
    IF Len(s) = 0 THEN [ok |-> FALSE, n |-> 0]
    ELSE LET signed == s[1] \in {"-", "+"}
             from   == IF signed THEN 2 ELSE 1
             r      == AccumNeg(s, from, 0)
         IN  IF from > Len(s) \/ ~r.ok THEN [ok |-> FALSE, n |-> 0]
             ELSE IF s[1] = "-" THEN r
             ELSE IF r.n = I32_MIN THEN [ok |-> FALSE, n |-> 0]
             ELSE [ok |-> TRUE, n |-> -r.n]

\* the decimal digits of n <= 0, most significant first
RECURSIVE DigitsOfNeg(_)
DigitsOfNeg(n) ==
    LET last == (10 - (n % 10)) % 10
        rest == (n + last) \div 10
    IN  IF rest = 0 THEN <<Digits[last + 1]>>
        ELSE DigitsOfNeg(rest) \o <<Digits[last + 1]>>

\* i32::to_string()
to_string(n) == IF n < 0 THEN <<"-">> \o DigitsOfNeg(n) ELSE DigitsOfNeg(-n)

\* a + b leaves the i32 range
AddOverflows(a, b) ==
    IF b >= 0 THEN a > I32_MAX - b ELSE a < I32_MIN - b

\* a - b leaves the i32 range
SubOverflows(a, b) ==
    IF b >= 0 THEN a < I32_MIN + b ELSE a > I32_MAX + b

\* a + b in two's complement (the result of a build without overflow checks)
WrappingAdd(a, b) ==
    IF ~AddOverflows(a, b) THEN a + b
    ELSE IF b >= 0 THEN (a - I32_MAX - 1) + (b - I32_MAX - 1)
    ELSE (a + I32_MAX + 1) + (b + I32_MAX + 1)

\* a - b in two's complement
WrappingSub(a, b) ==
    IF ~SubOverflows(a, b) THEN a - b
    ELSE IF b >= 0 THEN (a + I32_MAX + 1) + ((I32_MAX - b) + 1)
    ELSE (a - I32_MAX - 1) + ((-(b + 1)) - I32_MAX)

----------------------------------------------------------------------------
(* Inputs *)

\* connection threads, named by the token of their client handle
Clients == {1, 2}

\* the keys of the store, the ones pub/sub commands are sent for
Keys == {<<"a">>, <<"b">>}

\* the keys string commands are sent for
KeysStr == {<<"a">>}

OK == <<"O", "K">>
MaxI32Txt == <<"2", "1", "4", "7", "4", "8", "3", "6", "4", "7">>

\* the argument lists of a command: without a key, with a key only, and with
\* a key and one of the texts P
ArgsK     == {<<>>} \cup {<<k>> : k \in KeysStr}
ArgsKP(P) == ArgsK \cup {<<k, p>> : k \in KeysStr, p \in P}

\* the arguments sent with each command
ArgsSet     == ArgsKP({<<"x">>, <<"7">>})
ArgsAppend  == ArgsKP({<<"1">>})
ArgsInt     == ArgsKP({<<"x">>, <<"-", "1">>, MaxI32Txt})
ArgsPublish == {<<>>} \cup {<<k>> : k \in Keys}
                    \cup {<<k, <<"h", "i">>>> : k \in Keys}
CHANNELS == <<"C", "H", "A", "N", "N", "E", "L", "S">>
NUMSUB   == <<"N", "U", "M", "S", "U", "B">>

ArgsPubsub == {<<>>, <<<<"F">>>>, <<CHANNELS>>, <<CHANNELS, <<"*">>>>,
               <<CHANNELS, <<"b">>>>, <<NUMSUB>>, <<NUMSUB, <<"b">>>>,
               <<NUMSUB, <<"a">>, <<"b">>>>}

ArgsCanales == {<<>>, <<<<"a">>>>, <<<<"b">>>>, <<<<"a">>, <<"b">>>>,
                <<<<"a">>, <<"a">>>>}

----------------------------------------------------------------------------
(* TipoRedis, ResultadoRedis *)

Ninguno    == [t |-> "None",  s |-> <<>>, l |-> <<>>, subs |-> <<>>]
Str(s)     == [t |-> "Str",   s |-> s,    l |-> <<>>, subs |-> <<>>]
Lista(l)   == [t |-> "Lista", s |-> <<>>, l |-> l,    subs |-> <<>>]
Canal(sub) == [t |-> "Canal", s |-> <<>>, l |-> <<>>, subs |-> sub]

SinResultado  == [r |-> "None",      s |-> <<>>, n |-> 0, e |-> ""]
StrSimple(s)  == [r |-> "StrSimple", s |-> s,    n |-> 0, e |-> ""]
BulkStr(s)    == [r |-> "BulkStr",   s |-> s,    n |-> 0, e |-> ""]
ResInt(n)     == [r |-> "Int",       s |-> <<>>, n |-> n, e |-> ""]
Vector(v)     == [r |-> "Vector", s |-> <<>>, n |-> 0, e |-> "", v |-> v]
Error(e)      == [r |-> "Error",     s |-> <<>>, n |-> 0, e |-> e]

ClaveError     == "ClaveError no se encontro una clave"
ParametroError == "ParametroError no se envio el parametro"
ParametroErrorInt == "ParametroError no se encontro un parametro"
GetError       == "GetError error al obtener la clave"
StrLenError    == "StrLen error al obtener la clave"
WrongTypeInt   == "WRONGTYPE"
ValorNoInt     == "Valor no es un int"
ParametroNoInt == "Parametro no es un int"
WrongTypeCanal == "WrongType tipo de dato no es un canal"

----------------------------------------------------------------------------
(* ComandoInfo: the name, the key, and a cursor over the arguments.  The   *)
(* first get_clave takes the argument under the cursor as the key and      *)
(* keeps it: the handlers ask for the key again (append calls get with the *)
(* same ComandoInfo, the tests run two handlers on one ComandoInfo).       *)
(* get_parametro takes the argument under the cursor and advances.         *)

to_uppercase(n) ==
    CASE n = "get"     -> "GET"
      [] n = "set"     -> "SET"
      [] n = "append"  -> "APPEND"
      [] n = "getdel"  -> "GETDEL"
      [] n = "strlen"  -> "STRLEN"
      [] n = "decrby"  -> "DECRBY"
      [] n = "incrby"  -> "INCRBY"
      [] n = "subscribe"   -> "SUBSCRIBE"
      [] n = "unsubscribe" -> "UNSUBSCRIBE"
      [] n = "publish"     -> "PUBLISH"
      [] n = "pubsub"      -> "PUBSUB"
      [] OTHER         -> n

ComandoInfoNew(nombre, args) ==
    [nombre |-> to_uppercase(nombre), args |-> args, clave |-> <<>>, pos |-> 1]

\* Option<String> is a sequence of no or one text
get_clave(ci) ==
    IF ci.clave # <<>> THEN [val |-> ci.clave, ci |-> ci]
    ELSE IF ci.pos > Len(ci.args) THEN [val |-> <<>>, ci |-> ci]
    ELSE [val |-> <<ci.args[ci.pos]>>,
          ci  |-> [ci EXCEPT !.clave = <<ci.args[ci.pos]>>, !.pos = ci.pos + 1]]

get_parametro(ci) ==
    IF ci.pos > Len(ci.args) THEN [val |-> <<>>, ci |-> ci]
    ELSE [val |-> <<ci.args[ci.pos]>>, ci |-> [ci EXCEPT !.pos = ci.pos + 1]]

----------------------------------------------------------------------------
(* BaseDeDatos: the map behind the mutex.  A key that is not present maps  *)
(* to Ninguno.                                                             *)

obtener_valor(db, k) == db[k]

existe_clave(db, k) == db[k].t # "None"

guardar_valor(db, k, v) == [db EXCEPT ![k] = v]

eliminar_clave(db, k) == [db EXCEPT ![k] = Ninguno]

\* the glob match of canales_activos: * for any text, ? for any character,
\* every other character of the patterns used here for itself
RECURSIVE glob(_, _)
glob(patron, s) ==
    IF patron = <<>> THEN s = <<>>
    ELSE IF Head(patron) = "*"
    THEN glob(Tail(patron), s) \/ (s # <<>> /\ glob(patron, Tail(s)))
    ELSE /\ s # <<>>
         /\ Head(patron) = "?" \/ Head(patron) = Head(s)
         /\ glob(Tail(patron), Tail(s))

\* the keys that hold a Channel with a subscriber and match the pattern
canales_activos(db, patron) ==
    {k \in DOMAIN db : /\ db[k].t = "Canal"
                       /\ Len(db[k].subs) >= 1
                       /\ glob(patron, k)}

\* the orders in which the map can hand out the keys of S
Ordenes(S) ==
    {q \in [1..Cardinality(S) -> S] :
        \A i, j \in 1..Cardinality(S) : q[i] = q[j] => i = j}

----------------------------------------------------------------------------
(* State *)

VARIABLES
    bdd,         \* the BaseDeDatos behind Arc<Mutex<..>>: key -> TipoRedis
    pc,          \* where each connection thread stands in its handler
    comando,     \* the ComandoInfo each thread's handler works on
    a_ejecutar,  \* the handler function each thread runs (or ran last)
    loc,         \* the local variables of the running handler
    resultado,   \* the ResultadoRedis a finished handler returned, until sent
    hechos,      \* how many commands the threads have taken
    entregas,    \* the messages written to the socket of each client handle
    ultimo_set,  \* history: the value of the last SET of each key that no
                 \* other writing command has touched since
    intacto,     \* history: no other thread has changed the store since the
                 \* running handler of the thread started
    tabla,       \* the HashMap<String, Valor> of the store, of which its
                 \* observers get a clone after every mutation
    buzon,       \* the mpsc channel of MensajePersistencia, oldest first
    vivo,        \* the loop of PersistidorHandler::persistir is running
    archivo,     \* PersistidorHandler.archivo
    instante,    \* PersistidorHandler.instante
    disco,       \* the bytes of each file
    reloj,       \* the time, in units of the interval's seconds
    avisos,      \* how many mutations and messages the server has made
    ultimo,      \* history: what persistir did with the last Info it took
    exito,       \* history: when the last write that wrote all its lines
                 \* happened, and the snapshot it wrote
    emisores,    \* a Sender of the channel exists
    fin,         \* history: why the loop of persistir ended, and how many
                 \* messages were queued behind the one that ended it
    levantado,   \* what levantar_tabla returned at startup, if it ran
    cliente,     \* a ClienteRedis: timeout, ultimo_mensaje, socket
    enchufe,     \* what a peek at the socket of the client finds
    conectado,   \* what esta_conectado returned last
    rotos,       \* the clients whose handle in the rosters cannot be written
                 \* to: its socket is closed, or the clone got no socket
    candado,     \* the thread that holds the Mutex of the store, or 0
    historia,    \* history: the maps the store has held, oldest first
    enviados     \* history: for every message sent to the actor, how many
                 \* maps the store had held when it was sent

vars_comandos == <<bdd, pc, comando, a_ejecutar, loc, resultado, hechos,
                   entregas, ultimo_set, intacto>>

vars_persistencia == <<tabla, buzon, vivo, archivo, instante, disco, reloj,
                       avisos, ultimo, exito, emisores, fin, levantado>>

vars_cliente == <<cliente, enchufe, conectado, rotos>>

vars_candado == <<candado, historia, enviados>>

vars == <<bdd, pc, comando, a_ejecutar, loc, resultado, hechos, entregas,
          ultimo_set, intacto, tabla, buzon, vivo, archivo, instante, disco,
          reloj, avisos, ultimo, exito, emisores, fin, levantado, cliente,
          enchufe, conectado, rotos, candado, historia, enviados>>

LocInit == [clave |-> <<>>, param |-> <<>>, valor |-> <<>>, canal |-> <<>>,
            res |-> SinResultado]

\* what levantar_tabla can have put under a key before the first command
ValoresIniciales == {Ninguno, Str(<<"1">>), Lista(<<<<"x">>>>)}

\* the files snapshots are written to: the configured one, and one a
\* later ArchivoAPersistir names
Archivos == {"dump.rdb", "otro.rdb"}

\* PersistidorHandler::new, lines 46-51, with an empty store, an empty
\* channel and no file yet
InitPersistidor ==
    /\ tabla = <<>>
    /\ buzon = <<>>
    /\ vivo = TRUE
    /\ archivo = "dump.rdb"
    /\ instante = 0
    /\ disco = [a \in Archivos |-> <<>>]
    /\ reloj = 0
    /\ avisos = 0
    /\ ultimo = "nada"
    /\ exito = [instante |-> 0, tabla |-> <<>>]
    /\ emisores = TRUE
    /\ fin = [por |-> "", detras |-> 0]
    /\ levantado = "no"

\* ClienteRedis::new, lines 29-42
ClienteRedisNew(id, timeout) ==
    [id |-> id,
     timeout |-> IF timeout = 0 THEN <<>> ELSE <<timeout>>,
     ultimo_mensaje |-> reloj,
     socket |-> TRUE]

\* a client handle just created, nothing known of its socket yet
InitCliente ==
    /\ cliente = ClienteRedisNew(1, 0)
    /\ enchufe = "datos"
    /\ conectado = [valor |-> TRUE, n |-> 0]
    /\ rotos = {}

\* the Mutex of the store free, and the store as it was created
InitCandado ==
    /\ candado = 0
    /\ historia = <<tabla>>
    /\ enviados = <<>>

\* the connection threads before their first command
InitHilos ==
    /\ pc = [c \in Clients |-> "idle"]
    /\ comando = [c \in Clients |-> ComandoInfoNew("", <<>>)]
    /\ a_ejecutar = [c \in Clients |-> ""]
    /\ loc = [c \in Clients |-> LocInit]
    /\ resultado = [c \in Clients |-> SinResultado]
    /\ hechos = 0
    /\ entregas = [c \in Clients |-> <<>>]
    /\ ultimo_set = [k \in Keys |-> <<>>]
    /\ intacto = [c \in Clients |-> TRUE]

Init ==
    /\ bdd \in [Keys -> ValoresIniciales]
    /\ InitPersistidor
    /\ InitCliente
    /\ InitCandado
    /\ pc = [c \in Clients |-> "idle"]
    /\ comando = [c \in Clients |-> ComandoInfoNew("", <<>>)]
    /\ a_ejecutar = [c \in Clients |-> ""]
    /\ loc = [c \in Clients |-> LocInit]
    /\ resultado = [c \in Clients |-> SinResultado]
    /\ hechos = 0
    /\ entregas = [c \in Clients |-> <<>>]
    /\ ultimo_set = [k \in Keys |-> <<>>]
    /\ intacto = [c \in Clients |-> TRUE]

\* thread c takes a command and calls handler fn on its ComandoInfo
Empieza(c, fn) ==
    /\ pc[c] = "idle"
    /\ hechos < MaxCmds
    /\ hechos' = hechos + 1
    /\ a_ejecutar' = [a_ejecutar EXCEPT ![c] = fn]

\* thread c goes on with the handler it is in
Sigue(c, fn, at) ==
    /\ pc[c] = at
    /\ a_ejecutar[c] = fn
    /\ UNCHANGED <<hechos, a_ejecutar>>

\* the handler of thread c returns res
Termina(c, ci, res) ==
    /\ pc' = [pc EXCEPT ![c] = "responder"]
    /\ comando' = [comando EXCEPT ![c] = ci]
    /\ resultado' = [resultado EXCEPT ![c] = res]
    /\ loc' = [loc EXCEPT ![c] = LocInit]

\* the handler of thread c goes to its next statement that takes the lock
Pasa(c, ci, at, l) ==
    /\ pc' = [pc EXCEPT ![c] = at]
    /\ comando' = [comando EXCEPT ![c] = ci]
    /\ loc' = [loc EXCEPT ![c] = l]
    /\ UNCHANGED resultado

\* a write of key k by a command other than SET ends the reign of the last SET
Olvida(k) == ultimo_set' = [ultimo_set EXCEPT ![k] = <<>>]

EnHandler(c) == pc[c] \notin {"idle", "responder", "panic"}

\* a step of thread c that changes the store is seen by every other thread
\* that is inside a handler
Huella(c) ==
    intacto' = [d \in Clients |->
                  IF d = c
                  THEN pc[c] = "idle" \/ pc'[c] = "responder" \/ intacto[c]
                  ELSE IF bdd' # bdd /\ EnHandler(d) THEN FALSE
                  ELSE intacto[d]]

----------------------------------------------------------------------------
(* comando_string_handler.rs *)

\* get with the match arms confused: a value that is no String is answered
\* as an empty bulk string
get_sin_tipo(ci, db) ==
    LET clave == get_clave(ci) IN
    IF clave.val = <<>> THEN [res |-> Error(ClaveError), ci |-> clave.ci]
    ELSE LET v == obtener_valor(db, clave.val[1]) IN
         [res |-> IF v.t = "None" THEN Error(GetError) ELSE BulkStr(v.s),
          ci  |-> clave.ci]

\* fn get: the reply, and the ComandoInfo after it
get(ci, db) ==
    LET clave == get_clave(ci) IN
    IF clave.val = <<>> THEN [res |-> Error(ClaveError), ci |-> clave.ci]
    ELSE LET v == obtener_valor(db, clave.val[1]) IN
         [res |-> IF v.t = "Str" THEN BulkStr(v.s) ELSE Error(GetError),
          ci  |-> clave.ci]

\* set that keeps the value of a key that exists
set_sin_sobrescribir(ci, db) ==
    LET clave == get_clave(ci)
        parametro == get_parametro(clave.ci)
    IN  IF clave.val = <<>>
        THEN [res |-> Error(ClaveError), ci |-> clave.ci, db |-> db]
        ELSE IF parametro.val = <<>>
        THEN [res |-> Error(ParametroError), ci |-> parametro.ci, db |-> db]
        ELSE [res |-> StrSimple(OK), ci |-> parametro.ci,
              db |-> IF existe_clave(db, clave.val[1]) THEN db
                     ELSE guardar_valor(db, clave.val[1], Str(parametro.val[1]))]

\* fn set: the reply, the ComandoInfo and the store after it
set(ci, db) ==
    LET clave == get_clave(ci)
        parametro == get_parametro(clave.ci)
    IN  IF clave.val = <<>>
        THEN [res |-> Error(ClaveError), ci |-> clave.ci, db |-> db]
        ELSE IF parametro.val = <<>>
        THEN [res |-> Error(ParametroError), ci |-> parametro.ci, db |-> db]
        ELSE [res |-> StrSimple(OK), ci |-> parametro.ci,
              db |-> guardar_valor(db, clave.val[1], Str(parametro.val[1]))]

Get(c) ==
    /\ Empieza(c, "get")
    /\ \E args \in ArgsK :
          LET r == get(ComandoInfoNew("get", args), bdd) IN
          Termina(c, r.ci, r.res)
    /\ UNCHANGED <<bdd, entregas, ultimo_set>>
    /\ Huella(c)
    /\ UNCHANGED <<vars_persistencia, vars_cliente, vars_candado>>

Set(c) ==
    /\ Empieza(c, "set")
    /\ \E args \in ArgsSet :
          LET r == set(ComandoInfoNew("set", args), bdd) IN
          /\ Termina(c, r.ci, r.res)
          /\ bdd' = r.db
          /\ ultimo_set' = IF Len(args) < 2 THEN ultimo_set
                           ELSE [ultimo_set EXCEPT ![args[1]] = <<args[2]>>]
    /\ UNCHANGED entregas
    /\ Huella(c)
    /\ UNCHANGED <<vars_persistencia, vars_cliente, vars_candado>>

\* the command names of the string family, and a name of no family
NombresString == {"GET", "SET", "APPEND", "GETDEL", "STRLEN", "DECRBY", "INCRBY"}
NombresEjecutar == NombresString \cup {"FOO"}

ArgsEjecutar == {<<k>> : k \in KeysStr} \cup {<<k, <<"7">>>> : k \in KeysStr}

\* ComandoStringHandler::new, lines 19-22: the handler function chosen for
\* the name of the command
ComandoStringHandlerNew(ci) == IF ci.nombre = "GET" THEN "get" ELSE "set"

\* crear_comando_handler and ejecutar: a ComandoStringHandler is built for
\* the command, whatever its name, and runs the function new chose
Ejecutar(c) ==
    /\ pc[c] = "idle"
    /\ hechos < MaxCmds
    /\ hechos' = hechos + 1
    /\ \E nombre \in NombresEjecutar, args \in ArgsEjecutar :
          LET ci == ComandoInfoNew(nombre, args)
              fn == ComandoStringHandlerNew(ci)
          IN  /\ a_ejecutar' = [a_ejecutar EXCEPT ![c] = fn]
              /\ IF fn = "get"
                 THEN LET r == get(ci, bdd) IN
                      /\ Termina(c, r.ci, r.res)
                      /\ UNCHANGED <<bdd, ultimo_set>>
                 ELSE LET r == set(ci, bdd) IN
                      /\ Termina(c, r.ci, r.res)
                      /\ bdd' = r.db
                      /\ ultimo_set' =
                            IF Len(args) < 2 THEN ultimo_set
                            ELSE [ultimo_set EXCEPT ![args[1]] = <<args[2]>>]
    /\ UNCHANGED entregas
    /\ Huella(c)
    /\ UNCHANGED <<vars_persistencia, vars_cliente, vars_candado>>

\* fn append, lines 73-83: the key, the parameter, existe_clave under the lock
AppendExiste(c) ==
    /\ Empieza(c, "append")
    /\ \E args \in ArgsAppend :
          LET clave == get_clave(ComandoInfoNew("append", args))
              parametro == get_parametro(clave.ci)
          IN  IF clave.val = <<>>
              THEN Termina(c, clave.ci, Error(ClaveError))
              ELSE IF parametro.val = <<>>
              THEN Termina(c, parametro.ci, Error(ParametroError))
              ELSE Pasa(c, parametro.ci,
                        IF existe_clave(bdd, clave.val[1])
                        THEN "append_get" ELSE "append_nuevo",
                        [LocInit EXCEPT !.clave = clave.val,
                                        !.param = parametro.val])
    /\ UNCHANGED <<bdd, entregas, ultimo_set>>
    /\ Huella(c)
    /\ UNCHANGED <<vars_persistencia, vars_cliente, vars_candado>>

\* the concatenation with its operands exchanged
AppendGet_al_frente(c) ==
    /\ Sigue(c, "append", "append_get")
    /\ LET r == get(comando[c], bdd) IN
       IF r.res.r = "BulkStr"
       THEN Pasa(c, r.ci, "append_guardar",
                 [loc[c] EXCEPT !.valor = loc[c].param[1] \o r.res.s])
       ELSE Termina(c, r.ci, Error(GetError))
    /\ UNCHANGED <<bdd, entregas, ultimo_set>>
    /\ Huella(c)
    /\ UNCHANGED <<vars_persistencia, vars_cliente, vars_candado>>

\* fn append, lines 84-87: get under the lock, then the concatenation
AppendGet(c) ==
    /\ Sigue(c, "append", "append_get")
    /\ LET r == get(comando[c], bdd) IN
       IF r.res.r = "BulkStr"
       THEN Pasa(c, r.ci, "append_guardar",
                 [loc[c] EXCEPT !.valor = r.res.s \o loc[c].param[1]])
       ELSE Termina(c, r.ci, Error(GetError))
    /\ UNCHANGED <<bdd, entregas, ultimo_set>>
    /\ Huella(c)
    /\ UNCHANGED <<vars_persistencia, vars_cliente, vars_candado>>

\* fn append, lines 89-92: guardar_valor under the lock, the new length
AppendGuardar(c) ==
    /\ Sigue(c, "append", "append_guardar")
    /\ bdd' = guardar_valor(bdd, loc[c].clave[1], Str(loc[c].valor))
    /\ Olvida(loc[c].clave[1])
    /\ Termina(c, comando[c], ResInt(Len(loc[c].valor)))
    /\ UNCHANGED entregas
    /\ Huella(c)
    /\ UNCHANGED <<vars_persistencia, vars_cliente, vars_candado>>

\* fn append, lines 94-97: the key did not exist
AppendNuevo(c) ==
    /\ Sigue(c, "append", "append_nuevo")
    /\ bdd' = guardar_valor(bdd, loc[c].clave[1], Str(loc[c].param[1]))
    /\ Olvida(loc[c].clave[1])
    /\ Termina(c, comando[c], ResInt(Len(loc[c].param[1])))
    /\ UNCHANGED entregas
    /\ Huella(c)
    /\ UNCHANGED <<vars_persistencia, vars_cliente, vars_candado>>

\* fn getdel, lines 101-106: the key, then get under the lock
GetdelGet(c) ==
    /\ Empieza(c, "getdel")
    /\ \E args \in ArgsK :
          LET clave == get_clave(ComandoInfoNew("getdel", args)) IN
          IF clave.val = <<>>
          THEN Termina(c, clave.ci, Error(ClaveError))
          ELSE LET r == get(clave.ci, bdd) IN
               Pasa(c, r.ci, "getdel_eliminar",
                    [LocInit EXCEPT !.clave = clave.val, !.res = r.res])
    /\ UNCHANGED <<bdd, entregas, ultimo_set>>
    /\ Huella(c)
    /\ UNCHANGED <<vars_persistencia, vars_cliente, vars_candado>>

\* getdel that removes the key only when get found a String
GetdelEliminar_si_string(c) ==
    /\ Sigue(c, "getdel", "getdel_eliminar")
    /\ bdd' = IF loc[c].res.r = "BulkStr"
              THEN eliminar_clave(bdd, loc[c].clave[1]) ELSE bdd
    /\ Olvida(loc[c].clave[1])
    /\ Termina(c, comando[c], loc[c].res)
    /\ UNCHANGED entregas
    /\ Huella(c)
    /\ UNCHANGED <<vars_persistencia, vars_cliente, vars_candado>>

\* fn getdel, lines 107-108: eliminar_clave under the lock
GetdelEliminar(c) ==
    /\ Sigue(c, "getdel", "getdel_eliminar")
    /\ bdd' = eliminar_clave(bdd, loc[c].clave[1])
    /\ Olvida(loc[c].clave[1])
    /\ Termina(c, comando[c], loc[c].res)
    /\ UNCHANGED entregas
    /\ Huella(c)
    /\ UNCHANGED <<vars_persistencia, vars_cliente, vars_candado>>

\* fn strlen
strlen(ci, db) ==
    LET clave == get_clave(ci) IN
    IF clave.val = <<>> THEN [res |-> Error(ClaveError), ci |-> clave.ci]
    ELSE LET v == obtener_valor(db, clave.val[1]) IN
         [res |-> IF v.t = "Str" THEN ResInt(Len(v.s)) ELSE Error(StrLenError),
          ci  |-> clave.ci]

Strlen(c) ==
    /\ Empieza(c, "strlen")
    /\ \E args \in ArgsK :
          LET r == strlen(ComandoInfoNew("strlen", args), bdd) IN
          Termina(c, r.ci, r.res)
    /\ UNCHANGED <<bdd, entregas, ultimo_set>>
    /\ Huella(c)
    /\ UNCHANGED <<vars_persistencia, vars_cliente, vars_candado>>

\* the closure of incrby with the sign of decrby
incrby_f_resta(a, b) ==
    [overflow |-> SubOverflows(a, b), n |-> WrappingSub(a, b)]

\* the closures decrby and incrby pass to operar_sobre_int: whether the i32
\* operation overflows, and its two's complement result
decrby_f(a, b) == [overflow |-> SubOverflows(a, b), n |-> WrappingSub(a, b)]
incrby_f(a, b) == [overflow |-> AddOverflows(a, b), n |-> WrappingAdd(a, b)]

f_de(fn, a, b) == IF fn = "decrby" THEN decrby_f(a, b) ELSE incrby_f(a, b)

\* operar_sobre_int without the arm for a value of another type: such a value
\* is taken for a text that is no number
operar_sobre_int_sin_tipo(ci, db, fn) ==
    LET clave == get_clave(ci)
        falla(e, cj) == [ok |-> FALSE, res |-> Error(e), ci |-> cj,
                         overflow |-> FALSE, num |-> 0]
    IN
    IF clave.val = <<>> THEN falla(ClaveError, clave.ci)
    ELSE
    LET v == obtener_valor(db, clave.val[1]) IN
    IF v.t \notin {"Str", "None"} THEN falla(ValorNoInt, clave.ci)
    ELSE
    LET valor == IF v.t = "Str" THEN v.s ELSE <<"0">>
        num   == parse_i32(valor)
    IN
    IF ~num.ok THEN falla(ValorNoInt, clave.ci)
    ELSE
    LET parametro == get_parametro(clave.ci) IN
    IF parametro.val = <<>> THEN falla(ParametroErrorInt, parametro.ci)
    ELSE
    LET param == parse_i32(parametro.val[1]) IN
    IF ~param.ok THEN falla(ParametroNoInt, parametro.ci)
    ELSE
    LET r == f_de(fn, num.n, param.n) IN
    [ok |-> TRUE, res |-> SinResultado, ci |-> parametro.ci,
     overflow |-> r.overflow, num |-> r.n]

\* fn operar_sobre_int, lines 123-149: everything up to f(num, param).  The
\* store is read once, under the lock; the rest is local.  ok: whether the
\* handler goes on to store num.
operar_sobre_int(ci, db, fn) ==
    LET clave == get_clave(ci)
        falla(e, cj) == [ok |-> FALSE, res |-> Error(e), ci |-> cj,
                         overflow |-> FALSE, num |-> 0]
    IN
    IF clave.val = <<>> THEN falla(ClaveError, clave.ci)
    ELSE
    LET v == obtener_valor(db, clave.val[1]) IN
    IF v.t \notin {"Str", "None"} THEN falla(WrongTypeInt, clave.ci)
    ELSE
    LET valor == IF v.t = "Str" THEN v.s ELSE <<"0">>
        num   == parse_i32(valor)
    IN
    IF ~num.ok THEN falla(ValorNoInt, clave.ci)
    ELSE
    LET parametro == get_parametro(clave.ci) IN
    IF parametro.val = <<>> THEN falla(ParametroErrorInt, parametro.ci)
    ELSE
    LET param == parse_i32(parametro.val[1]) IN
    IF ~param.ok THEN falla(ParametroNoInt, parametro.ci)
    ELSE
    LET r == f_de(fn, num.n, param.n) IN
    [ok |-> TRUE, res |-> SinResultado, ci |-> parametro.ci,
     overflow |-> r.overflow, num |-> r.n]

\* An overflowing i32 operation panics in a build with overflow checks (the
\* default of the dev and test profiles) and wraps in one without them (the
\* release profile): both outcomes are possible.
OperarSobreIntLeer(c, fn) ==
    /\ Empieza(c, fn)
    /\ \E args \in ArgsInt :
          LET r == operar_sobre_int(ComandoInfoNew(fn, args), bdd, fn) IN
          IF ~r.ok THEN Termina(c, r.ci, r.res)
          ELSE \/ /\ r.overflow
                  /\ Pasa(c, r.ci, "panic", LocInit)
               \/ Pasa(c, r.ci, "int_guardar",
                       [LocInit EXCEPT !.clave = r.ci.clave,
                                       !.valor = to_string(r.num)])
    /\ UNCHANGED <<bdd, entregas, ultimo_set>>
    /\ Huella(c)
    /\ UNCHANGED <<vars_persistencia, vars_cliente, vars_candado>>

\* fn decrby, fn incrby
Decrby(c) == OperarSobreIntLeer(c, "decrby")
Incrby(c) == OperarSobreIntLeer(c, "incrby")

\* fn operar_sobre_int, lines 150-152: guardar_valor under the lock
OperarSobreIntGuardar(c) ==
    /\ pc[c] = "int_guardar"
    /\ UNCHANGED <<hechos, a_ejecutar>>
    /\ bdd' = guardar_valor(bdd, loc[c].clave[1], Str(loc[c].valor))
    /\ Olvida(loc[c].clave[1])
    /\ Termina(c, comando[c], BulkStr(loc[c].valor))
    /\ UNCHANGED entregas
    /\ Huella(c)
    /\ UNCHANGED <<vars_persistencia, vars_cliente, vars_candado>>

----------------------------------------------------------------------------
(* Canal: the roster of a channel, the tokens of its subscribers in the    *)
(* order they subscribed.                                                  *)

CanalNew == <<>>

EnCanal(canal, token) == \E i \in 1..Len(canal) : canal[i] = token

suscribirse(canal, token) ==
    IF EnCanal(canal, token) THEN canal ELSE Append(canal, token)

desuscribirse(canal, token) == SelectSeq(canal, LAMBDA t : t # token)

\* fn enviar_mensaje of the handle of a subscriber (cliente_redis.rs, lines
\* 125-137): Err(Coneccion) and nothing written when the handle has no
\* socket or the write fails, else the message written to the socket
enviar_mensaje(token, mensaje, ent) ==
    IF token \in rotos
    THEN [ok |-> FALSE, ent |-> ent]
    ELSE [ok |-> TRUE, ent |-> [ent EXCEPT ![token] = Append(@, mensaje)]]

\* publicar that gives up at the first subscriber whose enviar_mensaje
\* fails
RECURSIVE publicar_hasta_error(_, _, _)
publicar_hasta_error(canal, mensaje, ent) ==
    IF canal = <<>> THEN ent
    ELSE LET r == enviar_mensaje(Head(canal), mensaje, ent) IN
         IF r.ok THEN publicar_hasta_error(Tail(canal), mensaje, r.ent)
         ELSE r.ent

\* publicar hands the message to enviar_mensaje of every subscriber, in
\* roster order, whatever enviar_mensaje returns: the messages written to
\* each client after it
RECURSIVE publicar(_, _, _)
publicar(canal, mensaje, ent) ==
    IF canal = <<>> THEN ent
    ELSE publicar(Tail(canal), mensaje,
                  enviar_mensaje(Head(canal), mensaje, ent).ent)

----------------------------------------------------------------------------
(* comando_pubsub_handler.rs *)

\* a turn of the loop that forgets canal.suscribirse: the clone is stored as
\* it was read
Suscripcion_sin_alta(c, fn, ci, res) ==
    LET clave == get_parametro(ci) IN
    IF clave.val = <<>> THEN Termina(c, clave.ci, res)
    ELSE LET v == obtener_valor(bdd, clave.val[1]) IN
         IF v.t = "Canal" \/ (v.t = "None" /\ fn = "subscribe")
         THEN Pasa(c, clave.ci, "canal_guardar",
                   [LocInit EXCEPT !.clave = clave.val, !.res = res,
                        !.canal = IF fn = "subscribe"
                                  THEN v.subs
                                  ELSE desuscribirse(v.subs, c)])
         ELSE Termina(c, clave.ci, Error(WrongTypeCanal))

\* a turn of the loop whose unsubscribe empties the roster
Suscripcion_vacia(c, fn, ci, res) ==
    LET clave == get_parametro(ci) IN
    IF clave.val = <<>> THEN Termina(c, clave.ci, res)
    ELSE LET v == obtener_valor(bdd, clave.val[1]) IN
         IF v.t = "Canal" \/ (v.t = "None" /\ fn = "subscribe")
         THEN Pasa(c, clave.ci, "canal_guardar",
                   [LocInit EXCEPT !.clave = clave.val, !.res = res,
                        !.canal = IF fn = "subscribe"
                                  THEN suscribirse(v.subs, c)
                                  ELSE <<>>])
         ELSE Termina(c, clave.ci, Error(WrongTypeCanal))

\* a turn of the loop that adds the handle to the roster without looking
\* whether it is there
Suscripcion_duplicada(c, fn, ci, res) ==
    LET clave == get_parametro(ci) IN
    IF clave.val = <<>> THEN Termina(c, clave.ci, res)
    ELSE LET v == obtener_valor(bdd, clave.val[1]) IN
         IF v.t = "Canal" \/ (v.t = "None" /\ fn = "subscribe")
         THEN Pasa(c, clave.ci, "canal_guardar",
                   [LocInit EXCEPT !.clave = clave.val, !.res = res,
                        !.canal = IF fn = "subscribe"
                                  THEN Append(v.subs, c)
                                  ELSE desuscribirse(v.subs, c)])
         ELSE Termina(c, clave.ci, Error(WrongTypeCanal))

\* a turn of the loop without the arm for a value that is no channel: such a
\* key gets a new channel
Suscripcion_sin_error(c, fn, ci, res) ==
    LET clave == get_parametro(ci) IN
    IF clave.val = <<>> THEN Termina(c, clave.ci, res)
    ELSE LET v == obtener_valor(bdd, clave.val[1]) IN
         IF v.t = "Canal" \/ fn = "subscribe"
         THEN Pasa(c, clave.ci, "canal_guardar",
                   [LocInit EXCEPT !.clave = clave.val, !.res = res,
                        !.canal = IF fn = "subscribe"
                                  THEN suscribirse(v.subs, c)
                                  ELSE desuscribirse(v.subs, c)])
         ELSE Termina(c, clave.ci, Error(WrongTypeCanal))

\* fn subscribe / fn unsubscribe, one turn of the while loop up to the
\* change of the cloned roster (lines 52-59, 76-82): obtener_valor under the
\* lock, the rest local
Suscripcion(c, fn, ci, res) ==
    LET clave == get_parametro(ci) IN
    IF clave.val = <<>> THEN Termina(c, clave.ci, res)
    ELSE LET v == obtener_valor(bdd, clave.val[1]) IN
         IF v.t = "Canal" \/ (v.t = "None" /\ fn = "subscribe")
         THEN Pasa(c, clave.ci, "canal_guardar",
                   [LocInit EXCEPT !.clave = clave.val, !.res = res,
                        !.canal = IF fn = "subscribe"
                                  THEN suscribirse(v.subs, c)
                                  ELSE desuscribirse(v.subs, c)])
         ELSE Termina(c, clave.ci, Error(WrongTypeCanal))

\* the first turn of the loop of subscribe
Subscribe(c) ==
    /\ Empieza(c, "subscribe")
    /\ \E args \in ArgsCanales :
          Suscripcion(c, "subscribe", ComandoInfoNew("subscribe", args), ResInt(0))
    /\ UNCHANGED <<bdd, entregas, ultimo_set>>
    /\ Huella(c)
    /\ UNCHANGED <<vars_persistencia, vars_cliente, vars_candado>>

\* the first turn of the loop of unsubscribe
Unsubscribe(c) ==
    /\ Empieza(c, "unsubscribe")
    /\ \E args \in ArgsCanales :
          Suscripcion(c, "unsubscribe", ComandoInfoNew("unsubscribe", args), ResInt(0))
    /\ UNCHANGED <<bdd, entregas, ultimo_set>>
    /\ Huella(c)
    /\ UNCHANGED <<vars_persistencia, vars_cliente, vars_candado>>

\* a turn of the loop that leaves out guardar_valor: the changed clone is
\* dropped
CanalGuardar_sin_guardar(c) ==
    /\ pc[c] = "canal_guardar"
    /\ bdd' = bdd
    /\ Olvida(loc[c].clave[1])
    /\ Pasa(c, comando[c], "canal_leer", [loc[c] EXCEPT !.res = ResInt(1)])
    /\ UNCHANGED <<hechos, a_ejecutar, entregas>>
    /\ Huella(c)
    /\ UNCHANGED <<vars_persistencia, vars_cliente, vars_candado>>

\* lines 61-64, 84-87: guardar_valor of the changed clone under the lock
CanalGuardar(c) ==
    /\ pc[c] = "canal_guardar"
    /\ bdd' = guardar_valor(bdd, loc[c].clave[1], Canal(loc[c].canal))
    /\ Olvida(loc[c].clave[1])
    /\ Pasa(c, comando[c], "canal_leer", [loc[c] EXCEPT !.res = ResInt(1)])
    /\ UNCHANGED <<hechos, a_ejecutar, entregas>>
    /\ Huella(c)
    /\ UNCHANGED <<vars_persistencia, vars_cliente, vars_candado>>

\* a later turn of the loop
CanalLeer(c) ==
    /\ pc[c] = "canal_leer"
    /\ Suscripcion(c, a_ejecutar[c], comando[c], loc[c].res)
    /\ UNCHANGED <<hechos, a_ejecutar, bdd, entregas, ultimo_set>>
    /\ Huella(c)
    /\ UNCHANGED <<vars_persistencia, vars_cliente, vars_candado>>

\* fn publish, lines 97-112: the key, the message, the roster cloned under
\* the lock
PublishLeer(c) ==
    /\ Empieza(c, "publish")
    /\ \E args \in ArgsPublish :
          LET clave == get_clave(ComandoInfoNew("publish", args))
              mensaje == get_parametro(clave.ci)
          IN  IF clave.val = <<>>
              THEN Termina(c, clave.ci, Error(ClaveError))
              ELSE IF mensaje.val = <<>>
              THEN Termina(c, mensaje.ci, Error(ParametroError))
              ELSE LET v == obtener_valor(bdd, clave.val[1]) IN
                   IF v.t = "Canal"
                   THEN Pasa(c, mensaje.ci, "publicar",
                             [LocInit EXCEPT !.clave = clave.val,
                                             !.param = mensaje.val,
                                             !.canal = v.subs])
                   ELSE Termina(c, mensaje.ci, Error(WrongTypeCanal))
    /\ UNCHANGED <<bdd, entregas, ultimo_set>>
    /\ Huella(c)
    /\ UNCHANGED <<vars_persistencia, vars_cliente, vars_candado>>

\* fn publish, line 114: canal.publicar(mensaje) on the clone, lock not held
PublishEnviar(c) ==
    /\ Sigue(c, "publish", "publicar")
    /\ entregas' = publicar(loc[c].canal, loc[c].param[1], entregas)
    /\ Termina(c, comando[c], ResInt(Len(loc[c].canal)))
    /\ UNCHANGED <<bdd, ultimo_set>>
    /\ Huella(c)
    /\ UNCHANGED <<vars_persistencia, vars_cliente, vars_candado>>

\* fn channels, lines 139-152: the pattern, canales_activos under the
\* lock, the names as a Vector of BulkStr
channels(c, ci) ==
    LET parametro == get_parametro(ci) IN
    IF parametro.val = <<>>
    THEN Termina(c, parametro.ci, Error(ParametroError))
    ELSE \E q \in Ordenes(canales_activos(bdd, parametro.val[1])) :
            Termina(c, parametro.ci,
                    Vector([i \in 1..Len(q) |-> BulkStr(q[i])]))

\* numsub that takes a channel without subscribers for no channel
numsub_sin_vacios(c, ci, cantidades) ==
    LET clave == get_parametro(ci) IN
    IF clave.val = <<>> THEN Termina(c, clave.ci, Vector(cantidades))
    ELSE LET v == obtener_valor(bdd, clave.val[1]) IN
         IF v.t = "Canal" /\ v.subs # <<>>
         THEN Pasa(c, clave.ci, "numsub_leer",
                   [LocInit EXCEPT !.res =
                       Vector(Append(cantidades, ResInt(Len(v.subs))))])
         ELSE Termina(c, clave.ci, Error(WrongTypeCanal))

\* fn numsub, one turn of the while loop (lines 161-168) or the return
\* (line 169): obtener_valor under the lock, the count pushed
numsub(c, ci, cantidades) ==
    LET clave == get_parametro(ci) IN
    IF clave.val = <<>> THEN Termina(c, clave.ci, Vector(cantidades))
    ELSE LET v == obtener_valor(bdd, clave.val[1]) IN
         IF v.t = "Canal"
         THEN Pasa(c, clave.ci, "numsub_leer",
                   [LocInit EXCEPT !.res =
                       Vector(Append(cantidades, ResInt(Len(v.subs))))])
         ELSE Termina(c, clave.ci, Error(WrongTypeCanal))

\* fn pubsub, lines 122-131: the subcommand, then channels or the first turn
\* of numsub
Pubsub(c) ==
    /\ Empieza(c, "pubsub")
    /\ \E args \in ArgsPubsub :
          LET clave == get_clave(ComandoInfoNew("pubsub", args)) IN
          IF clave.val = <<>> THEN Termina(c, clave.ci, Error(ClaveError))
          ELSE IF clave.val[1] = CHANNELS THEN channels(c, clave.ci)
          ELSE IF clave.val[1] = NUMSUB THEN numsub(c, clave.ci, <<>>)
          ELSE Termina(c, clave.ci, Error(ClaveError))
    /\ UNCHANGED <<bdd, entregas, ultimo_set>>
    /\ Huella(c)
    /\ UNCHANGED <<vars_persistencia, vars_cliente, vars_candado>>

\* a later turn of the loop of numsub
NumsubLeer(c) ==
    /\ pc[c] = "numsub_leer"
    /\ numsub(c, comando[c], loc[c].res.v)
    /\ UNCHANGED <<hechos, a_ejecutar, bdd, entregas, ultimo_set>>
    /\ Huella(c)
    /\ UNCHANGED <<vars_persistencia, vars_cliente, vars_candado>>

----------------------------------------------------------------------------
(* cliente_redis.rs *)

\* enviar_resultado: the thread writes the reply of its handler to its socket
\* and is ready for the next command
EnviarResultado(c) ==
    /\ pc[c] = "responder"
    /\ pc' = [pc EXCEPT ![c] = "idle"]
    /\ comando' = [comando EXCEPT ![c] = ComandoInfoNew("", <<>>)]
    /\ a_ejecutar' = [a_ejecutar EXCEPT ![c] = ""]
    /\ resultado' = [resultado EXCEPT ![c] = SinResultado]
    /\ UNCHANGED <<bdd, loc, hechos, entregas, ultimo_set, intacto>>
    /\ UNCHANGED <<vars_persistencia, vars_cliente, vars_candado>>

\* what a peek at the socket returns: Ok(len) with len > 0, Ok(0), Err(_)
Enchufes == {"datos", "cerrado", "error"}

\* the timeouts of the configuration: none, and one second
Timeouts == {0, 1}

\* esta_conectado that takes the handle as idle when exactly the timeout
\* has gone by
esta_conectado_con_igual(cl, peek, ahora) ==
    IF ~cl.socket THEN FALSE
    ELSE LET esta == peek = "datos"
             paso_el_timeout ==
                 IF cl.timeout # <<>>
                 THEN ahora - cl.ultimo_mensaje >= cl.timeout[1]
                 ELSE FALSE
         IN  esta /\ ~paso_el_timeout

\* fn esta_conectado, lines 101-118
esta_conectado(cl, peek, ahora) ==
    IF ~cl.socket THEN FALSE
    ELSE LET esta == CASE peek = "datos" -> TRUE
                       [] peek = "cerrado" -> FALSE
                       [] OTHER -> FALSE
             paso_el_timeout ==
                 IF cl.timeout # <<>>
                 THEN ahora - cl.ultimo_mensaje > cl.timeout[1]
                 ELSE FALSE
         IN  esta /\ ~paso_el_timeout

\* the accept loop asks the handle whether it is connected
EstaConectado ==
    /\ conectado' = [valor |-> esta_conectado(cliente, enchufe, reloj),
                     n |-> 1 - conectado.n]
    /\ UNCHANGED <<cliente, enchufe, rotos>>
    /\ UNCHANGED <<vars_comandos, vars_persistencia, vars_candado>>

\* fn enviar_mensaje, lines 125-137: the time of the last message is now
EnviarMensaje ==
    /\ cliente.ultimo_mensaje # reloj
    /\ cliente' = [cliente EXCEPT !.ultimo_mensaje = reloj]
    /\ UNCHANGED <<enchufe, conectado, rotos>>
    /\ UNCHANGED <<vars_comandos, vars_persistencia, vars_candado>>

\* impl Clone, lines 147-157: the handle is replaced by a clone of it,
\* which has no socket when try_clone fails (obtener_socket, lines 44-54)
Clonar ==
    /\ cliente.socket
    /\ \E socket \in BOOLEAN : cliente' = [cliente EXCEPT !.socket = socket]
    /\ UNCHANGED <<enchufe, conectado, rotos>>
    /\ UNCHANGED <<vars_comandos, vars_persistencia, vars_candado>>

\* the peer sends bytes, closes its half, or the connection breaks
Peer ==
    /\ \E e \in Enchufes \ {enchufe} : enchufe' = e
    /\ UNCHANGED <<cliente, conectado, rotos>>
    /\ UNCHANGED <<vars_comandos, vars_persistencia, vars_candado>>

----------------------------------------------------------------------------
(* persistencia.rs: the text of a snapshot *)

STRING_ == <<"S", "T", "R", "I", "N", "G">>
LIST   == <<"L", "I", "S", "T">>
SET    == <<"S", "E", "T">>
EX     == <<"E", "X">>
SEPARADOR == ":"

\* TipoRedis::Set, its members a set
Conjunto(m) == [t |-> "Set", s |-> <<>>, l |-> <<>>, subs |-> <<>>, m |-> m]

\* Valor: the value, the seconds it has left when it expires (none or one
\* number), and whether its deadline has passed
no_expirable(v) == [v |-> v, tiempo |-> <<>>, vencido |-> FALSE]
expirable(v, segundos) == [v |-> v, tiempo |-> <<segundos>>, vencido |-> FALSE]
vencida(v) == [v |-> v, tiempo |-> <<0>>, vencido |-> TRUE]

\* Valor::get and Valor::get_tiempo
valor_get(val) == IF val.vencido THEN Ninguno ELSE val.v
valor_get_tiempo(val) == val.tiempo

\* the texts of sequence ts with sep between them
RECURSIVE Une(_, _)
Une(ts, sep) ==
    IF ts = <<>> THEN <<>>
    ELSE IF Len(ts) = 1 THEN ts[1]
    ELSE ts[1] \o <<sep>> \o Une(Tail(ts), sep)

\* str::split: the pieces of text s between the occurrences of sep
RECURSIVE split(_, _)
split(s, sep) ==
    IF \A i \in 1..Len(s) : s[i] # sep THEN <<s>>
    ELSE LET i == CHOOSE i \in 1..Len(s) :
                      s[i] = sep /\ \A j \in 1..(i - 1) : s[j] # sep
         IN  <<SubSeq(s, 1, i - 1)>> \o split(SubSeq(s, i + 1, Len(s)), sep)

\* the function q over 1..n as a sequence
Secuencia(q) == [i \in 1..Cardinality(DOMAIN q) |-> q[i]]

\* guardar_clave_valor that leaves out the time to live
guardar_clave_valor_sin_ex(clave, valor, time) ==
    CASE valor.t = "Str" ->
            {Une(<<STRING_, clave, valor.s>>, SEPARADOR)}
      [] valor.t = "Lista" ->
            {Une(<<LIST, clave>> \o valor.l, SEPARADOR)}
      [] valor.t = "Set" ->
            {Une(<<SET, clave>> \o Secuencia(q), SEPARADOR) :
                q \in Ordenes(valor.m)}
      [] OTHER -> {<<>>}

\* fn guardar_clave_valor: the lines it can return for a key, what get() of
\* its Valor gave and what get_tiempo() gave; a Set is written in any order
guardar_clave_valor(clave, valor, time) ==
    LET ex == IF time = <<>> THEN <<>> ELSE <<EX, to_string(time[1])>> IN
    CASE valor.t = "Str" ->
            {Une(<<STRING_, clave, valor.s>> \o ex, SEPARADOR)}
      [] valor.t = "Lista" ->
            {Une(<<LIST, clave>> \o valor.l \o ex, SEPARADOR)}
      [] valor.t = "Set" ->
            {Une(<<SET, clave>> \o Secuencia(q) \o ex, SEPARADOR) :
                q \in Ordenes(valor.m)}
      [] OTHER -> {<<>>}

\* persistir, lines 70-77: the vectors of lines it can build of a snapshot,
\* the keys taken in the order q
RECURSIVE Lineas(_, _, _)
Lineas(a_persistir, q, i) ==
    IF i > Len(q) THEN {<<>>}
    ELSE {<<l>> \o r :
            l \in guardar_clave_valor(q[i], valor_get(a_persistir[q[i]]),
                                      valor_get_tiempo(a_persistir[q[i]])),
            r \in Lineas(a_persistir, q, i + 1)}

Vectores(a_persistir) ==
    UNION {Lineas(a_persistir, Secuencia(q), 1) :
              q \in Ordenes(DOMAIN a_persistir)}

\* writeln! of each line of the vector
RECURSIVE Bytes(_)
Bytes(instrucciones) ==
    IF instrucciones = <<>> THEN <<>>
    ELSE Head(instrucciones) \o <<"\n">> \o Bytes(Tail(instrucciones))

\* fn guardar_en_archivo, lines 194-203: the file is opened for writing
\* without truncate and the bytes go over its start
guardar_en_archivo(contenido, bytes) ==
    bytes \o SubSeq(contenido, Len(bytes) + 1, Len(contenido))

\* BufRead::lines: the pieces between line feeds, without an empty last one
lines(contenido) ==
    LET p == split(contenido, "\n") IN
    IF p[Len(p)] = <<>> THEN SubSeq(p, 1, Len(p) - 1) ELSE p

contains(elemento, tok) == \E i \in 1..Len(elemento) : elemento[i] = tok

\* fn es_expirable
es_expirable(parametros) == contains(parametros, EX)

\* str::parse::<u64> on the numbers the model writes
parse_u64(s) ==
    LET r == parse_i32(s) IN
    IF r.ok /\ s[1] # "-" THEN <<r.n>> ELSE <<>>

\* fn obtener_tiempo_expiracion: the first token after the last EX, parsed;
\* with no token after it, c[0] panics
obtener_tiempo_expiracion(parametros) ==
    LET u == CHOOSE i \in 0..Len(parametros) :
                 /\ i > 0 => parametros[i] = EX
                 /\ \A j \in (i + 1)..Len(parametros) : parametros[j] # EX
    IN  IF u = Len(parametros) THEN [panic |-> TRUE, val |-> <<>>]
        ELSE [panic |-> FALSE, val |-> parse_u64(parametros[u + 1])]

\* HashMap::insert
insert(hashmap, k, val) ==
    [x \in DOMAIN hashmap \cup {k} |-> IF x = k THEN val ELSE hashmap[x]]

\* the Valor levantar_tabla builds of value v and the tokens it looks for EX in
ValorLevantado(v, elemento) ==
    IF ~es_expirable(elemento) THEN [panic |-> FALSE, val |-> no_expirable(v)]
    ELSE LET tiempo == obtener_tiempo_expiracion(elemento) IN
         [panic |-> tiempo.panic,
          val |-> expirable(v, IF tiempo.val = <<>> THEN 0 ELSE tiempo.val[1])]

\* fn levantar_tabla, lines 218-274: the map after the lines from the i-th
\* on, or the panic of an index out of range
RECURSIVE Levanta(_, _, _)
Levanta(ls, i, hashmap) ==
    IF i > Len(ls) THEN [panic |-> FALSE, hashmap |-> hashmap]
    ELSE IF ls[i] = <<>> THEN Levanta(ls, i + 1, hashmap)
    ELSE LET elemento == split(ls[i], ":")
             resto == SubSeq(elemento, 3, Len(elemento))
         IN
         IF contains(elemento, STRING_)
         THEN IF Len(elemento) < 3 THEN [panic |-> TRUE, hashmap |-> hashmap]
              ELSE LET r == ValorLevantado(Str(elemento[3]), elemento) IN
                   IF r.panic THEN [panic |-> TRUE, hashmap |-> hashmap]
                   ELSE Levanta(ls, i + 1, insert(hashmap, elemento[2], r.val))
         ELSE IF contains(elemento, LIST)
         THEN IF Len(elemento) < 2 THEN [panic |-> TRUE, hashmap |-> hashmap]
              ELSE LET r == ValorLevantado(Lista(resto), resto) IN
                   IF r.panic THEN [panic |-> TRUE, hashmap |-> hashmap]
                   ELSE Levanta(ls, i + 1, insert(hashmap, elemento[2], r.val))
         ELSE IF contains(elemento, SET)
         THEN IF Len(elemento) < 2 THEN [panic |-> TRUE, hashmap |-> hashmap]
              ELSE LET r == ValorLevantado(
                                Conjunto({resto[j] : j \in 1..Len(resto)}),
                                resto)
                   IN
                   IF r.panic THEN [panic |-> TRUE, hashmap |-> hashmap]
                   ELSE Levanta(ls, i + 1, insert(hashmap, elemento[2], r.val))
         ELSE Levanta(ls, i + 1, hashmap)

\* fn levantar_tabla of a file with this content; a file that is missing
\* and a file that is empty both give the empty map
levantar_tabla(contenido) == Levanta(lines(contenido), 1, <<>>)

----------------------------------------------------------------------------
(* persistencia.rs: the actor and the threads that send to it *)

Intervalo == 1

Info(a_persistir) == [m |-> "Info", a_persistir |-> a_persistir, a |-> ""]
ArchivoAPersistir(a) == [m |-> "ArchivoAPersistir", a_persistir |-> <<>>, a |-> a]
Cerrar == [m |-> "Cerrar", a_persistir |-> <<>>, a |-> ""]

\* the values the commands put under a key
ValoresTabla ==
    {no_expirable(Str(<<"v">>)), expirable(Lista(<<<<"x">>>>), 5),
     no_expirable(Conjunto({<<"x">>, <<"y">>})), no_expirable(Canal(<<1>>))}

\* send of a channel that holds one message (sync_channel(1)): the sender
\* waits while the actor has not taken the message before
send_acotado(mensaje) ==
    /\ emisores
    /\ avisos < MaxAvisos
    /\ vivo => buzon = <<>>
    /\ avisos' = avisos + 1
    /\ buzon' = IF vivo THEN Append(buzon, mensaje) ELSE buzon

\* Sender::send, as Persistidor::persistir and cambiar_archivo use it (lines
\* 111-115, 120-124): the message is queued while the receiver exists, and
\* the error of a send to a dropped receiver is ignored
send(mensaje) ==
    /\ emisores
    /\ avisos < MaxAvisos
    /\ avisos' = avisos + 1
    /\ buzon' = IF vivo THEN Append(buzon, mensaje) ELSE buzon

\* a command puts a value under a key, and the store calls actualizar with
\* a clone of its map
Guardar ==
    /\ \E k \in Keys, val \in ValoresTabla :
          /\ tabla' = insert(tabla, k, val)
          /\ send(Info(tabla'))
    /\ UNCHANGED <<vivo, archivo, instante, disco, reloj, ultimo, exito,
                   emisores, fin, levantado>>
    /\ UNCHANGED <<vars_comandos, vars_cliente, vars_candado>>

\* a command deletes a key, and the store calls actualizar with a clone of
\* its map
Eliminar ==
    /\ \E k \in DOMAIN tabla :
          /\ tabla' = [x \in DOMAIN tabla \ {k} |-> tabla[x]]
          /\ send(Info(tabla'))
    /\ UNCHANGED <<vivo, archivo, instante, disco, reloj, ultimo, exito,
                   emisores, fin, levantado>>
    /\ UNCHANGED <<vars_comandos, vars_cliente, vars_candado>>

\* the deadline of an expirable value passes
Vence ==
    /\ \E k \in DOMAIN tabla :
          /\ tabla[k].tiempo # <<>>
          /\ ~tabla[k].vencido
          /\ tabla' = [tabla EXCEPT ![k] = vencida(tabla[k].v)]
    /\ UNCHANGED <<buzon, vivo, archivo, instante, disco, reloj, avisos,
                   ultimo, exito,
                   emisores, fin, levantado>>
    /\ UNCHANGED <<vars_comandos, vars_cliente, vars_candado>>

\* Persistidor::cambiar_archivo
CambiarArchivo ==
    /\ \E a \in Archivos : a # archivo /\ send(ArchivoAPersistir(a))
    /\ UNCHANGED <<tabla, vivo, archivo, instante, disco, reloj, ultimo, exito,
                   emisores, fin, levantado>>
    /\ UNCHANGED <<vars_comandos, vars_cliente, vars_candado>>

\* the shutdown signal
EnviarCerrar ==
    /\ send(Cerrar)
    /\ UNCHANGED <<tabla, vivo, archivo, instante, disco, reloj, ultimo, exito,
                   emisores, fin, levantado>>
    /\ UNCHANGED <<vars_comandos, vars_cliente, vars_candado>>

\* time passes
Tic ==
    /\ reloj < MaxReloj
    /\ reloj' = reloj + 1
    /\ UNCHANGED <<tabla, buzon, vivo, archivo, instante, disco, avisos,
                   ultimo, exito,
                   emisores, fin, levantado>>
    /\ UNCHANGED <<vars_comandos, vars_cliente, vars_candado>>

\* a handle made with each timeout of the configuration, while the clock
\* runs and the peer does what it likes
InitClienteRedis ==
    /\ bdd = [k \in Keys |-> Ninguno]
    /\ InitHilos
    /\ InitPersistidor
    /\ InitCandado
    /\ \E timeout \in Timeouts : cliente = ClienteRedisNew(1, timeout)
    /\ enchufe \in Enchufes
    /\ conectado = [valor |-> TRUE, n |-> 0]
    /\ rotos = {}

NextClienteRedis ==
    \/ EstaConectado
    \/ EnviarMensaje
    \/ Clonar
    \/ Peer
    \/ Tic

SpecClienteRedis == InitClienteRedis /\ [][NextClienteRedis]_vars

\* persistir, line 65: recv hands the oldest message of kind m to the loop
recv(m) ==
    /\ vivo
    /\ buzon # <<>>
    /\ Head(buzon).m = m

\* persistir, line 68
Toca == reloj - instante >= Intervalo

\* persistir, lines 67-83, the interval over and the file opened: the lines
\* are written, all of them or, writeln! failing, none of them, and the
\* timer starts again
PersistirEscribe ==
    /\ recv("Info")
    /\ Toca
    /\ \E vector \in Vectores(Head(buzon).a_persistir) :
       \E n \in {0, Len(vector)} :
          /\ disco' = [disco EXCEPT ![archivo] =
                          guardar_en_archivo(@, Bytes(SubSeq(vector, 1, n)))]
          /\ ultimo' = IF n = Len(vector) THEN "escrito" ELSE "incompleto"
          /\ exito' = IF n = Len(vector)
                      THEN [instante |-> reloj,
                            tabla |-> Head(buzon).a_persistir]
                      ELSE exito
    /\ instante' = reloj
    /\ buzon' = Tail(buzon)
    /\ UNCHANGED <<tabla, vivo, archivo, reloj, avisos,
                   emisores, fin, levantado>>
    /\ UNCHANGED <<vars_comandos, vars_cliente, vars_candado>>

\* persistir, lines 78-81, the interval over and the file not opened: the
\* loop ends, and the receiver is dropped with what it holds
PersistirNoAbre ==
    /\ recv("Info")
    /\ Toca
    /\ vivo' = FALSE
    /\ buzon' = <<>>
    /\ ultimo' = "no_abre"
    /\ UNCHANGED <<tabla, archivo, instante, disco, reloj, avisos, exito,
                   emisores, levantado>>
    /\ fin' = [por |-> "no_abre", detras |-> Len(buzon) - 1]
    /\ UNCHANGED <<vars_comandos, vars_cliente, vars_candado>>

\* persistir, line 68, the interval not over: the message is dropped
PersistirDescarta ==
    /\ recv("Info")
    /\ ~Toca
    /\ buzon' = Tail(buzon)
    /\ ultimo' = "descartado"
    /\ UNCHANGED <<tabla, vivo, archivo, instante, disco, reloj, avisos, exito,
                   emisores, fin, levantado>>
    /\ UNCHANGED <<vars_comandos, vars_cliente, vars_candado>>

\* persistir that starts its timer again when the path changes
PersistirArchivo_con_reloj ==
    /\ recv("ArchivoAPersistir")
    /\ archivo' = Head(buzon).a
    /\ instante' = reloj
    /\ buzon' = Tail(buzon)
    /\ UNCHANGED <<tabla, vivo, disco, reloj, avisos, ultimo, exito,
                   emisores, fin, levantado>>
    /\ UNCHANGED <<vars_comandos, vars_cliente, vars_candado>>

\* persistir, line 86
PersistirArchivo ==
    /\ recv("ArchivoAPersistir")
    /\ archivo' = Head(buzon).a
    /\ buzon' = Tail(buzon)
    /\ UNCHANGED <<tabla, vivo, instante, disco, reloj, avisos, ultimo, exito,
                   emisores, fin, levantado>>
    /\ UNCHANGED <<vars_comandos, vars_cliente, vars_candado>>

\* persistir that takes Cerrar as one more message and goes on
PersistirCerrar_sigue ==
    /\ recv("Cerrar")
    /\ buzon' = Tail(buzon)
    /\ UNCHANGED <<tabla, vivo, archivo, instante, disco, reloj, avisos,
                   ultimo, exito, emisores, fin, levantado>>
    /\ UNCHANGED <<vars_comandos, vars_cliente, vars_candado>>

\* persistir, line 88
PersistirCerrar ==
    /\ recv("Cerrar")
    /\ vivo' = FALSE
    /\ buzon' = <<>>
    /\ UNCHANGED <<tabla, archivo, instante, disco, reloj, avisos, ultimo, exito,
                   emisores, levantado>>
    /\ fin' = [por |-> "Cerrar", detras |-> Len(buzon) - 1]
    /\ UNCHANGED <<vars_comandos, vars_cliente, vars_candado>>

\* the last Sender of the channel is dropped
SoltarEmisores ==
    /\ emisores
    /\ emisores' = FALSE
    /\ UNCHANGED <<tabla, buzon, vivo, archivo, instante, disco, reloj, avisos,
                   ultimo, exito, fin, levantado>>
    /\ UNCHANGED <<vars_comandos, vars_cliente, vars_candado>>

\* persistir, line 65: with no message queued and no Sender left recv
\* returns Err, and the loop ends
PersistirSinEmisores ==
    /\ vivo
    /\ buzon = <<>>
    /\ ~emisores
    /\ vivo' = FALSE
    /\ fin' = [por |-> "sin_emisores", detras |-> 0]
    /\ UNCHANGED <<tabla, buzon, archivo, instante, disco, reloj, avisos,
                   ultimo, exito, emisores, levantado>>
    /\ UNCHANGED <<vars_comandos, vars_cliente, vars_candado>>

\* a step of the loop of persistir
Persistir ==
    \/ PersistirEscribe
    \/ PersistirNoAbre
    \/ PersistirDescarta
    \/ PersistirArchivo
    \/ PersistirCerrar
    \/ PersistirSinEmisores

NextPersistencia ==
    \/ Guardar
    \/ Eliminar
    \/ Vence
    \/ CambiarArchivo
    \/ EnviarCerrar
    \/ SoltarEmisores
    \/ Tic
    \/ PersistirEscribe
    \/ PersistirNoAbre
    \/ PersistirDescarta
    \/ PersistirArchivo
    \/ PersistirCerrar
    \/ PersistirSinEmisores

InitPersistencia ==
    /\ bdd = [k \in Keys |-> Ninguno]
    /\ InitHilos
    /\ InitPersistidor
    /\ InitCliente
    /\ InitCandado

SpecPersistencia == InitPersistencia /\ [][NextPersistencia]_vars

\* the thread of the actor takes its next message if there is one, and
\* time goes on
SpecPersistenciaJusta ==
    /\ SpecPersistencia
    /\ WF_vars(Persistir)
    /\ WF_vars(Tic)

----------------------------------------------------------------------------
(* persistencia.rs: the restore at startup *)

\* the words a key, a value or an element of the lines below can be
Palabras == {<<"x">>, STRING_, LIST, SET, EX}

\* the seconds the lines below expire in
Segundos == <<"5">>

\* the payloads of the lines below: a value for a String, one or two
\* elements for a List or a Set
Cargas(tag) ==
    {<<p>> : p \in Palabras}
        \cup (IF tag = STRING_ THEN {}
              ELSE {<<p, q>> : p \in Palabras, q \in Palabras \ {<<"x">>}})

\* the lines a snapshot has for one entry whose key and elements are among
\* the words, with and without the time to live
LineasDePrueba ==
    {Une(<<tag, k>> \o carga \o ex, SEPARADOR) :
        tag \in {STRING_}, k \in {<<"a">>, LIST, EX},
        carga \in Cargas(STRING_), ex \in {<<>>, <<EX, Segundos>>}}
    \cup
    {Une(<<tag, k>> \o carga \o ex, SEPARADOR) :
        tag \in {LIST}, k \in {<<"a">>, STRING_, EX},
        carga \in Cargas(LIST), ex \in {<<>>, <<EX, Segundos>>}}
    \cup
    {Une(<<tag, k>> \o carga \o ex, SEPARADOR) :
        tag \in {SET}, k \in {<<"a">>, STRING_},
        carga \in Cargas(SET), ex \in {<<>>, <<EX, Segundos>>}}

\* the server starts: levantar_tabla reads the configured file into the
\* store, or panics
LevantarTabla ==
    /\ levantado = "no"
    /\ LET r == levantar_tabla(disco[archivo]) IN
       /\ levantado' = IF r.panic THEN "panic" ELSE "si"
       /\ tabla' = IF r.panic THEN tabla ELSE r.hashmap
    /\ UNCHANGED <<buzon, vivo, archivo, instante, disco, reloj, avisos,
                   ultimo, exito, emisores, fin>>
    /\ UNCHANGED <<vars_comandos, vars_cliente, vars_candado>>

\* a file with no line, or with one line and its line feed
InitLevantar ==
    /\ bdd = [k \in Keys |-> Ninguno]
    /\ InitHilos
    /\ tabla = <<>>
    /\ buzon = <<>>
    /\ vivo = TRUE
    /\ archivo = "dump.rdb"
    /\ instante = 0
    /\ \E contenido \in {<<>>} \cup {l \o <<"\n">> : l \in LineasDePrueba} :
          disco = [a \in Archivos |->
                      IF a = "dump.rdb" THEN contenido ELSE <<>>]
    /\ reloj = 0
    /\ avisos = 0
    /\ ultimo = "nada"
    /\ exito = [instante |-> 0, tabla |-> <<>>]
    /\ emisores = TRUE
    /\ fin = [por |-> "", detras |-> 0]
    /\ levantado = "no"
    /\ InitCliente
    /\ InitCandado

NextLevantar == LevantarTabla

SpecLevantar == InitLevantar /\ [][NextLevantar]_vars

----------------------------------------------------------------------------
(* The Mutex of the store.  A handler statement `bdd.lock().unwrap().op(..)` *)
(* holds the MutexGuard, a temporary, until the statement ends: the whole    *)
(* of op runs under the lock, the notification of the observers that op      *)
(* makes included.  Here the statement is taken apart into its steps, with   *)
(* the persistence actor running beside the connection threads.              *)

\* what the connection threads leave alone in these steps
vars_handler == <<bdd, comando, a_ejecutar, resultado, ultimo_set, intacto>>

\* the message PUBLISH is sent with
Mensaje == <<"h", "i">>

\* a mutation that gives the lock back before the observers are notified
GuardarValor_sin_candado(c) ==
    /\ pc[c] = "idle"
    /\ candado = 0
    /\ hechos < MaxCmds
    /\ avisos < MaxAvisos
    /\ \E k \in Keys, val \in ValoresTabla : tabla' = insert(tabla, k, val)
    /\ historia' = Append(historia, tabla')
    /\ candado' = 0
    /\ hechos' = hechos + 1
    /\ pc' = [pc EXCEPT ![c] = "actualizar"]
    /\ loc' = [loc EXCEPT ![c] = [clon |-> tabla', sello |-> Len(historia')]]
    /\ UNCHANGED <<entregas, enviados, vars_handler, vars_cliente>>
    /\ UNCHANGED <<buzon, vivo, archivo, instante, disco, reloj, avisos,
                   ultimo, exito, emisores, fin, levantado>>

\* set, lines 65-67, up to the insert of guardar_valor: the thread takes
\* the lock and the store puts the value under the key; the clone of the
\* map that its observers will get, and which map of the history it is
GuardarValor(c) ==
    /\ pc[c] = "idle"
    /\ candado = 0
    /\ hechos < MaxCmds
    /\ avisos < MaxAvisos
    /\ \E k \in Keys, val \in ValoresTabla : tabla' = insert(tabla, k, val)
    /\ historia' = Append(historia, tabla')
    /\ candado' = c
    /\ hechos' = hechos + 1
    /\ pc' = [pc EXCEPT ![c] = "actualizar"]
    /\ loc' = [loc EXCEPT ![c] = [clon |-> tabla', sello |-> Len(historia')]]
    /\ UNCHANGED <<entregas, enviados, vars_handler, vars_cliente>>
    /\ UNCHANGED <<buzon, vivo, archivo, instante, disco, reloj, avisos,
                   ultimo, exito, emisores, fin, levantado>>

\* guardar_valor calls actualizar of its observer, which sends the clone
\* to the actor (lines 131-133, 110-115)
Actualizar(c) ==
    /\ pc[c] = "actualizar"
    /\ send(Info(loc[c].clon))
    /\ enviados' = Append(enviados, loc[c].sello)
    /\ pc' = [pc EXCEPT ![c] = "soltar"]
    /\ UNCHANGED <<loc, hechos, entregas, candado, historia, vars_handler,
                   vars_cliente>>
    /\ UNCHANGED <<tabla, vivo, archivo, instante, disco, reloj, ultimo, exito,
                   emisores, fin, levantado>>

\* set, line 67: the statement ends and the MutexGuard is dropped
Soltar(c) ==
    /\ pc[c] = "soltar"
    /\ candado' = IF candado = c THEN 0 ELSE candado
    /\ pc' = [pc EXCEPT ![c] = "idle"]
    /\ loc' = [loc EXCEPT ![c] = LocInit]
    /\ UNCHANGED <<hechos, entregas, historia, enviados, vars_handler,
                   vars_cliente, vars_persistencia>>

\* publish, lines 109-110: the thread takes the lock and clones the Canal
\* under the key
PublishClona(c) ==
    /\ pc[c] = "idle"
    /\ candado = 0
    /\ hechos < MaxCmds
    /\ \E k \in DOMAIN tabla :
          /\ valor_get(tabla[k]).t = "Canal"
          /\ loc' = [loc EXCEPT ![c] =
                        [LocInit EXCEPT !.clave = <<k>>,
                                        !.param = <<Mensaje>>,
                                        !.canal = valor_get(tabla[k]).subs]]
    /\ candado' = c
    /\ hechos' = hechos + 1
    /\ pc' = [pc EXCEPT ![c] = "publish_soltar"]
    /\ UNCHANGED <<entregas, historia, enviados, vars_handler, vars_cliente,
                   vars_persistencia>>

\* publish that goes on to publicar with the MutexGuard alive
PublishSuelta_con_candado(c) ==
    /\ pc[c] = "publish_soltar"
    /\ pc' = [pc EXCEPT ![c] = "publicar"]
    /\ UNCHANGED <<loc, hechos, entregas, candado, historia, enviados,
                   vars_handler, vars_cliente, vars_persistencia>>

\* publish, line 112: the let statement ends and the MutexGuard is dropped
PublishSuelta(c) ==
    /\ pc[c] = "publish_soltar"
    /\ candado' = 0
    /\ pc' = [pc EXCEPT ![c] = "publicar"]
    /\ UNCHANGED <<loc, hechos, entregas, historia, enviados, vars_handler,
                   vars_cliente, vars_persistencia>>

\* publish, line 114: canal.publicar(mensaje) on the clone
PublishPublica(c) ==
    /\ pc[c] = "publicar"
    /\ entregas' = publicar(loc[c].canal, loc[c].param[1], entregas)
    /\ candado' = IF candado = c THEN 0 ELSE candado
    /\ pc' = [pc EXCEPT ![c] = "idle"]
    /\ loc' = [loc EXCEPT ![c] = LocInit]
    /\ UNCHANGED <<hechos, historia, enviados, vars_handler, vars_cliente,
                   vars_persistencia>>

\* the steps of connection thread c
Hilo(c) ==
    \/ GuardarValor(c)
    \/ Actualizar(c)
    \/ Soltar(c)
    \/ PublishClona(c)
    \/ PublishSuelta(c)
    \/ PublishPublica(c)

NextCandado ==
    \/ \E c \in Clients : GuardarValor(c)
    \/ \E c \in Clients : Actualizar(c)
    \/ \E c \in Clients : Soltar(c)
    \/ \E c \in Clients : PublishClona(c)
    \/ \E c \in Clients : PublishSuelta(c)
    \/ \E c \in Clients : PublishPublica(c)
    \/ Tic
    \/ PersistirEscribe
    \/ PersistirNoAbre
    \/ PersistirDescarta

SpecCandado == InitPersistencia /\ [][NextCandado]_vars

\* the socket of a subscriber stops taking writes: the peer closed it, or
\* the handle cloned into the rosters got no socket (obtener_socket, lines
\* 44-54)
Rompe(c) ==
    /\ c \notin rotos
    /\ rotos' = rotos \cup {c}
    /\ UNCHANGED <<cliente, enchufe, conectado>>
    /\ UNCHANGED <<vars_comandos, vars_persistencia, vars_candado>>

----------------------------------------------------------------------------

Next ==
    \E c \in Clients :
        \/ Get(c)
        \/ Set(c)
        \/ Ejecutar(c)
        \/ AppendExiste(c)
        \/ AppendGet(c)
        \/ AppendGuardar(c)
        \/ AppendNuevo(c)
        \/ GetdelGet(c)
        \/ GetdelEliminar(c)
        \/ Strlen(c)
        \/ Decrby(c)
        \/ Incrby(c)
        \/ OperarSobreIntGuardar(c)
        \/ Subscribe(c)
        \/ Unsubscribe(c)
        \/ CanalGuardar(c)
        \/ CanalLeer(c)
        \/ PublishLeer(c)
        \/ PublishEnviar(c)
        \/ Pubsub(c)
        \/ NumsubLeer(c)
        \/ EnviarResultado(c)

Spec == Init /\ [][Next]_vars

\* the threads subscribe and publish while the sockets of the subscribers
\* break
NextPublicar ==
    \E c \in Clients :
        \/ Subscribe(c)
        \/ CanalGuardar(c)
        \/ CanalLeer(c)
        \/ PublishLeer(c)
        \/ PublishEnviar(c)
        \/ EnviarResultado(c)
        \/ Rompe(c)

SpecPublicar == Init /\ [][NextPublicar]_vars

----------------------------------------------------------------------------
(* Properties *)

\* the handler fn of thread c returns in this step
Devuelve(c, fn) ==
    /\ pc[c] # "responder"
    /\ pc'[c] = "responder"
    /\ a_ejecutar'[c] = fn

\* the reply a GET of key k gets from store db
RespuestaGet(k, db) == get(ComandoInfoNew("get", <<k>>), db).res

\* C1: whatever the threads interleave, a GET k that follows a SET k v, with
\* no other command writing k in between, replies BulkStr(v) for the most
\* recent such v; SET k v replies StrSimple("OK") and leaves Str(v) under k
\* whatever k held.
C1_SetDeterminaGet ==
    [][\A c \in Clients :
        /\ (Devuelve(c, "get") /\ comando'[c].clave # <<>>) =>
              LET k == comando'[c].clave[1] IN
              ultimo_set[k] # <<>> =>
                  resultado'[c] = BulkStr(ultimo_set[k][1])
        /\ (Devuelve(c, "set") /\ Len(comando'[c].args) = 2) =>
              LET k == comando'[c].args[1]
                  v == comando'[c].args[2]
              IN  /\ resultado'[c] = StrSimple(OK)
                  /\ bdd'[k] = Str(v)
                  /\ \A j \in Keys \ {k} : bdd'[j] = bdd[j]]_vars

\* a GET has answered the value of a SET
C1_Witness ==
    \E c \in Clients :
        /\ pc[c] = "responder"
        /\ a_ejecutar[c] = "get"
        /\ resultado[c] = BulkStr(<<"7">>)
        /\ ultimo_set[<<"a">>] = <<<<"7">>>>

\* C8: GET k replies BulkStr(v) exactly when k holds String v, and
\* Error("GetError error al obtener la clave") when k is absent or holds
\* another type; it leaves the store as it is.
C8_GetSoloStrings ==
    [][\A c \in Clients :
        (Devuelve(c, "get") /\ comando'[c].clave # <<>>) =>
            LET v == bdd[comando'[c].clave[1]] IN
            /\ v.t = "Str" => resultado'[c] = BulkStr(v.s)
            /\ v.t # "Str" =>
                  resultado'[c] = Error("GetError error al obtener la clave")
            /\ bdd' = bdd]_vars

\* a GET of a key that holds a channel has been answered with the error
C8_Witness ==
    \E c \in Clients :
        /\ pc[c] = "responder"
        /\ a_ejecutar[c] = "get"
        /\ comando[c].clave = <<<<"a">>>>
        /\ bdd[<<"a">>].t = "Canal"
        /\ resultado[c] = Error(GetError)

\* how often token h is in a roster
Veces(canal, h) == Cardinality({i \in 1..Len(canal) : canal[i] = h})

Suscritos(canal) == {h \in Clients : EnCanal(canal, h)}

\* C2: the store write of SUBSCRIBE k by handle h leaves a Channel under k
\* with h in its roster, once; PUBLISH k m on a key that holds a Channel
\* takes the roster the key holds at that moment, hands m once to the send
\* path of every handle of that roster and to no other, and replies Int(n),
\* n the number of handles of that roster.
C2_SubscribeLuegoPublish ==
    [][\A c \in Clients :
        /\ (pc[c] = "canal_guardar" /\ a_ejecutar[c] = "subscribe"
                /\ pc'[c] = "canal_leer") =>
              LET k == loc[c].clave[1] IN
              /\ bdd'[k].t = "Canal"
              /\ Veces(bdd'[k].subs, c) = 1
        /\ (pc[c] = "idle" /\ pc'[c] # "idle" /\ a_ejecutar'[c] = "publish"
                /\ Len(comando'[c].args) = 2) =>
              LET k == comando'[c].args[1] IN
              IF bdd[k].t = "Canal"
              THEN pc'[c] = "publicar" /\ loc'[c].canal = bdd[k].subs
              ELSE pc'[c] = "responder" /\ resultado'[c].r = "Error"
        /\ (pc[c] = "publicar" /\ pc'[c] = "responder") =>
              LET m == comando[c].args[2]
                  canal == loc[c].canal
              IN  /\ \A h \in Clients :
                        entregas'[h] = IF h \in Suscritos(canal)
                                       THEN Append(entregas[h], m)
                                       ELSE entregas[h]
                  /\ resultado'[c] = ResInt(Cardinality(Suscritos(canal)))]_vars

\* both clients subscribed to a, and a PUBLISH a "hi" reached both and
\* replied Int(2)
C2_Witness ==
    \E c \in Clients :
        /\ pc[c] = "responder"
        /\ a_ejecutar[c] = "publish"
        /\ comando[c].args = <<<<"a">>, <<"h", "i">>>>
        /\ resultado[c] = ResInt(2)
        /\ Suscritos(bdd[<<"a">>].subs) = Clients
        /\ \A h \in Clients : entregas[h] = <<<<"h", "i">>>>

\* C3: when the only two commands run are an INCRBY/DECRBY by each of the
\* two clients, or an APPEND by each, on the same key, replies and final
\* value are those of one of the two serial orders: the second reply is the
\* operation applied to the first reply, and is the value stored.
C3_Serializable ==
    (hechos = 2 /\ \A c \in Clients : pc[c] = "responder"
                                      /\ comando[c].clave = <<<<"a">>>>) =>
        /\ (\A c \in Clients : /\ a_ejecutar[c] \in {"incrby", "decrby"}
                               /\ resultado[c].r = "BulkStr") =>
              \E c1, c2 \in Clients :
                  /\ c1 # c2
                  /\ resultado[c2].s =
                        to_string(f_de(a_ejecutar[c2],
                                       parse_i32(resultado[c1].s).n,
                                       parse_i32(comando[c2].args[2]).n).n)
                  /\ bdd[<<"a">>] = Str(resultado[c2].s)
        /\ (\A c \in Clients : /\ a_ejecutar[c] = "append"
                               /\ resultado[c].r = "Int") =>
              \E c1, c2 \in Clients :
                  /\ c1 # c2
                  /\ resultado[c2].n =
                        resultado[c1].n + Len(comando[c2].args[2])
                  /\ bdd[<<"a">>].t = "Str"
                  /\ Len(bdd[<<"a">>].s) = resultado[c2].n

\* C4: when the only two commands run are a SUBSCRIBE k by each of the two
\* clients, both replied Int(1), both clients are in the roster under k.
C4_AmbosSuscritos ==
    \A k \in Keys :
        (hechos = 2 /\ \A c \in Clients : /\ pc[c] = "responder"
                                          /\ a_ejecutar[c] = "subscribe"
                                          /\ comando[c].args = <<k>>
                                          /\ resultado[c] = ResInt(1)) =>
            /\ bdd[k].t = "Canal"
            /\ Suscritos(bdd[k].subs) = Clients

\* the number INCRBY/DECRBY take a stored value for: 0 for an absent key
Base(v) == IF v.t = "None" THEN 0 ELSE parse_i32(v.s).n

EsEntero(v) == v.t = "None" \/ (v.t = "Str" /\ parse_i32(v.s).ok)

EnRango(fn, a, b) ==
    IF fn = "incrby" THEN ~AddOverflows(a, b) ELSE ~SubOverflows(a, b)

\* C5: INCRBY k b (DECRBY k b) on a key that holds the decimal text of a, or
\* is absent (a = 0), with b a decimal text and a+b (a-b) an i32, run with no
\* other thread changing the store meanwhile, stores the decimal text of a+b
\* (a-b), replies it as BulkStr, and a GET k on the store it leaves replies
\* the same.
C5_IncrbyDecrby ==
    [][\A c \in Clients :
        /\ (pc[c] = "idle" /\ pc'[c] # "idle"
                /\ a_ejecutar'[c] \in {"incrby", "decrby"}
                /\ Len(comando'[c].args) = 2
                /\ EsEntero(bdd[comando'[c].args[1]])
                /\ parse_i32(comando'[c].args[2]).ok
                /\ EnRango(a_ejecutar'[c], Base(bdd[comando'[c].args[1]]),
                           parse_i32(comando'[c].args[2]).n)) =>
              pc'[c] = "int_guardar"
        /\ (pc[c] = "int_guardar" /\ pc'[c] = "responder" /\ intacto[c]) =>
              LET k == comando[c].args[1]
                  a == Base(bdd[k])
                  b == parse_i32(comando[c].args[2]).n
                  n == IF a_ejecutar[c] = "incrby" THEN a + b ELSE a - b
              IN  EnRango(a_ejecutar[c], a, b) =>
                      /\ resultado'[c] = BulkStr(to_string(n))
                      /\ parse_i32(resultado'[c].s) = [ok |-> TRUE, n |-> n]
                      /\ bdd'[k] = Str(to_string(n))
                      /\ RespuestaGet(k, bdd') = resultado'[c]]_vars

\* INCRBY a -1 on the absent key a has replied "-1" and created the key
C5_Witness ==
    \E c \in Clients :
        /\ pc[c] = "responder"
        /\ a_ejecutar[c] = "incrby"
        /\ comando[c].args = <<<<"a">>, <<"-", "1">>>>
        /\ resultado[c] = BulkStr(<<"-", "1">>)
        /\ bdd[<<"a">>] = Str(<<"-", "1">>)
        /\ ultimo_set[<<"a">>] = <<>>
        /\ hechos = 1

\* C6: APPEND k s run with no other thread changing the store meanwhile:
\* on a key that holds String p it stores p followed by s and replies the
\* length of that; on an absent key it stores s and replies its length; a
\* GET k on the store it leaves replies what was stored; on a key of another
\* type it replies Error("GetError ...") and leaves the store as it was.
C6_Append ==
    [][\A c \in Clients :
        (a_ejecutar'[c] = "append" /\ Len(comando'[c].args) = 2
            /\ pc'[c] # pc[c] /\ (intacto[c] \/ pc[c] = "idle")) =>
        LET k == comando'[c].args[1]
            s == comando'[c].args[2]
            p == bdd[k]
        IN  /\ pc[c] = "idle" =>
                  pc'[c] = IF p.t = "None" THEN "append_nuevo"
                           ELSE "append_get"
            /\ pc[c] = "append_get" =>
                  IF p.t = "Str" THEN pc'[c] = "append_guardar"
                  ELSE /\ pc'[c] = "responder"
                       /\ resultado'[c] =
                             Error("GetError error al obtener la clave")
            /\ pc[c] = "append_guardar" =>
                  /\ p.t = "Str"
                  /\ bdd'[k] = Str(p.s \o s)
                  /\ resultado'[c] = ResInt(Len(p.s) + Len(s))
                  /\ RespuestaGet(k, bdd') = BulkStr(p.s \o s)
            /\ pc[c] = "append_nuevo" =>
                  /\ p.t = "None"
                  /\ bdd'[k] = Str(s)
                  /\ resultado'[c] = ResInt(Len(s))
                  /\ RespuestaGet(k, bdd') = BulkStr(s)
            /\ pc[c] \notin {"append_guardar", "append_nuevo"} => bdd' = bdd
            /\ \A j \in Keys \ {k} : bdd'[j] = bdd[j]]_vars

\* after SET a x, APPEND a 1 has stored "x1" and replied 2
C6_Witness ==
    \E c \in Clients :
        /\ pc[c] = "responder"
        /\ a_ejecutar[c] = "append"
        /\ resultado[c] = ResInt(2)
        /\ bdd[<<"a">>] = Str(<<"x", "1">>)

\* C7: GETDEL k run with no other thread changing the store meanwhile
\* replies what GET k replies on the store it found, and leaves k absent
\* whatever k held, so that a GET k on the store it leaves replies
\* Error("GetError ..."); no other key changes.
C7_Getdel ==
    [][\A c \in Clients :
        (pc[c] = "getdel_eliminar" /\ pc'[c] = "responder" /\ intacto[c]) =>
            LET k == comando[c].args[1] IN
            /\ resultado'[c] = RespuestaGet(k, bdd)
            /\ bdd'[k] = Ninguno
            /\ RespuestaGet(k, bdd') =
                  Error("GetError error al obtener la clave")
            /\ \A j \in Keys \ {k} : bdd'[j] = bdd[j]]_vars

\* a GETDEL has removed a key that held no String: its reply is the error,
\* and the key is absent
C7_Witness ==
    \E c \in Clients :
        /\ pc[c] = "responder"
        /\ a_ejecutar[c] = "getdel"
        /\ comando[c].args = <<<<"a">>>>
        /\ resultado[c] = Error(GetError)
        /\ bdd[<<"a">>] = Ninguno
        /\ hechos = 1

\* the errors C9 allows INCRBY/DECRBY on stored value v with arguments args
Defectos(v, args) ==
    (IF v.t \notin {"Str", "None"} THEN {"WRONGTYPE"} ELSE {})
    \cup (IF v.t = "Str" /\ ~parse_i32(v.s).ok
          THEN {"Valor no es un int"} ELSE {})
    \cup (IF Len(args) < 2
          THEN {"ParametroError no se encontro un parametro"} ELSE {})
    \cup (IF Len(args) >= 2 /\ ~parse_i32(args[2]).ok
          THEN {"Parametro no es un int"} ELSE {})

\* C9: INCRBY/DECRBY k n, when k holds another type, or a text that is no
\* integer, or n is no integer, or n is missing, returns at once with the
\* Error the claim gives for a condition that holds (WRONGTYPE alone when k
\* holds another type), and leaves the store exactly as it was; with none of
\* these conditions it returns no error.
C9_ErroresEnteros ==
    [][\A c \in Clients :
        (pc[c] = "idle" /\ pc'[c] # "idle"
            /\ a_ejecutar'[c] \in {"incrby", "decrby"}
            /\ Len(comando'[c].args) >= 1) =>
        LET v == bdd[comando'[c].args[1]]
            d == Defectos(v, comando'[c].args)
        IN  IF d = {} THEN pc'[c] # "responder"
            ELSE /\ pc'[c] = "responder"
                 /\ resultado'[c].r = "Error"
                 /\ resultado'[c].e \in d
                 /\ v.t \notin {"Str", "None"} =>
                        resultado'[c].e = "WRONGTYPE"
                 /\ bdd' = bdd]_vars

\* DECRBY a -1 on a key that holds "x" has replied that the value is no
\* integer, and the key still holds "x"
C9_Witness ==
    \E c \in Clients :
        /\ pc[c] = "responder"
        /\ a_ejecutar[c] = "decrby"
        /\ comando[c].args = <<<<"a">>, <<"-", "1">>>>
        /\ resultado[c] = Error(ValorNoInt)
        /\ bdd[<<"a">>] = Str(<<"x">>)

\* C10: no INCRBY/DECRBY panics, whatever the sum or difference.
C10_SinPanic == \A c \in Clients : pc[c] # "panic"

\* the command names of the pub/sub family that the model runs
NombresPubSub == {"SUBSCRIBE", "UNSUBSCRIBE", "PUBLISH", "PUBSUB"}

\* C11: a handler built for a command of the string or the pub/sub family
\* runs the function of that command, and a command whose name belongs to no
\* family is answered Error("unknown command") with the store unchanged.
C11_TablaDeComandos ==
    [][\A c \in Clients :
        (pc[c] = "idle" /\ pc'[c] # "idle") =>
            IF comando'[c].nombre \in NombresString \cup NombresPubSub
            THEN to_uppercase(a_ejecutar'[c]) = comando'[c].nombre
            ELSE /\ pc'[c] = "responder"
                 /\ resultado'[c] = Error("unknown command")
                 /\ bdd' = bdd]_vars

\* thread c makes a turn of the loop of handler fn in this step: it asks for
\* the next key
Vuelta(c, fn) ==
    /\ pc[c] \in {"idle", "canal_leer"}
    /\ pc'[c] # pc[c]
    /\ a_ejecutar'[c] = fn

\* the cursor of thread c before a turn of its loop
Cursor(c) == IF pc[c] = "idle" THEN 1 ELSE comando[c].pos

\* C12: SUBSCRIBE k1 .. kn takes the keys in argument order.  A key that is
\* absent or holds a Channel goes on to the save, which (no other thread
\* having changed the store since the command started) leaves under the key
\* a Channel with the old roster, in its order, and the caller, and changes
\* no other key.  At the first key that holds another value the command
\* returns Error("WrongType ..") with the store unchanged and looks at no
\* later key.  After the last key it returns Int(1) if it subscribed to a
\* key and Int(0) if there was none.
C12_SubscribeEnOrden ==
    [][\A c \in Clients :
        /\ Vuelta(c, "subscribe") =>
              LET args == comando'[c].args
                  pos  == Cursor(c)
              IN  /\ bdd' = bdd
                  /\ IF pos > Len(args)
                     THEN /\ pc'[c] = "responder"
                          /\ resultado'[c] =
                                IF pos = 1 THEN ResInt(0) ELSE ResInt(1)
                     ELSE IF bdd[args[pos]].t \in {"None", "Canal"}
                     THEN /\ pc'[c] = "canal_guardar"
                          /\ loc'[c].clave = <<args[pos]>>
                          /\ comando'[c].pos = pos + 1
                     ELSE /\ pc'[c] = "responder"
                          /\ resultado'[c] =
                                Error("WrongType tipo de dato no es un canal")
        /\ (pc[c] = "canal_guardar" /\ pc'[c] # pc[c]
                /\ a_ejecutar[c] = "subscribe" /\ intacto[c]) =>
              LET k == loc[c].clave[1]
                  antes == IF bdd[k].t = "Canal" THEN bdd[k].subs ELSE <<>>
              IN  /\ bdd'[k].t = "Canal"
                  /\ EnCanal(bdd'[k].subs, c)
                  /\ SubSeq(bdd'[k].subs, 1, Len(antes)) = antes
                  /\ Len(bdd'[k].subs) \in {Len(antes), Len(antes) + 1}
                  /\ \A j \in Keys \ {k} : bdd'[j] = bdd[j]
                  /\ pc'[c] = "canal_leer"]_vars

\* SUBSCRIBE a b, with a absent and b holding a list, has subscribed the
\* caller to a and returned the error at b, which still holds the list
C12_Witness ==
    \E c \in Clients :
        /\ pc[c] = "responder"
        /\ a_ejecutar[c] = "subscribe"
        /\ comando[c].args = <<<<"a">>, <<"b">>>>
        /\ resultado[c] = Error(WrongTypeCanal)
        /\ bdd[<<"a">>] = Canal(<<c>>)
        /\ bdd[<<"b">>] = Lista(<<<<"x">>>>)

\* C13: in every reachable state the roster of every Channel of the store
\* holds each client token at most once.
C13_SinDuplicados ==
    \A k \in Keys :
        bdd[k].t = "Canal" =>
            \A i, j \in 1..Len(bdd[k].subs) :
                bdd[k].subs[i] = bdd[k].subs[j] => i = j

\* SUBSCRIBE a a has returned, and the roster of a holds the caller once
C13_Witness ==
    \E c \in Clients :
        /\ pc[c] = "responder"
        /\ a_ejecutar[c] = "subscribe"
        /\ comando[c].args = <<<<"a">>, <<"a">>>>
        /\ resultado[c] = ResInt(1)
        /\ bdd[<<"a">>] = Canal(<<c>>)

\* C14: UNSUBSCRIBE by handle c, at a key that holds a Channel, goes on to
\* the save, which (no other thread having changed the store since the
\* command started) leaves the roster without c, one shorter if c was in it
\* and of the same length if not, with every other subscriber in its place,
\* and changes no other key; at a key that is absent or holds another value
\* it returns Error("WrongType ..") and changes nothing.
C14_Unsubscribe ==
    [][\A c \in Clients :
        /\ (Vuelta(c, "unsubscribe") /\ Cursor(c) <= Len(comando'[c].args)) =>
              LET k == comando'[c].args[Cursor(c)] IN
              /\ bdd' = bdd
              /\ IF bdd[k].t = "Canal"
                 THEN /\ pc'[c] = "canal_guardar"
                      /\ loc'[c].clave = <<k>>
                 ELSE /\ pc'[c] = "responder"
                      /\ resultado'[c] =
                            Error("WrongType tipo de dato no es un canal")
        /\ (pc[c] = "canal_guardar" /\ pc'[c] # pc[c]
                /\ a_ejecutar[c] = "unsubscribe" /\ intacto[c]) =>
              LET k == loc[c].clave[1]
                  antes == bdd[k].subs
                  luego == bdd'[k].subs
              IN  /\ bdd[k].t = "Canal"
                  /\ bdd'[k].t = "Canal"
                  /\ ~EnCanal(luego, c)
                  /\ Len(luego) =
                        Len(antes) - (IF EnCanal(antes, c) THEN 1 ELSE 0)
                  /\ luego = SelectSeq(antes, LAMBDA h : h # c)
                  /\ ~EnCanal(antes, c) => bdd' = bdd
                  /\ \A j \in Keys \ {k} : bdd'[j] = bdd[j]]_vars

\* after both clients subscribed to b, UNSUBSCRIBE b by one of them has left
\* the other alone in the roster
C14_Witness ==
    \E c \in Clients :
        /\ pc[c] = "responder"
        /\ a_ejecutar[c] = "unsubscribe"
        /\ comando[c].args = <<<<"b">>>>
        /\ resultado[c] = ResInt(1)
        /\ bdd[<<"b">>].t = "Canal"
        /\ Len(bdd[<<"b">>].subs) = 1
        /\ ~EnCanal(bdd[<<"b">>].subs, c)
        /\ intacto[c]
        /\ hechos = 3

\* the elements of sequence q
Elementos(q) == {q[i] : i \in 1..Len(q)}

\* C15: the save of UNSUBSCRIBE (no other thread having changed the store
\* since the command started) leaves a Channel under the key, an empty one
\* when the caller was its only subscriber.  On a key that holds an empty
\* Channel, a turn of PUBSUB NUMSUB pushes Int(0) and the command returns the
\* Vector of the counts it pushed; PUBLISH goes on to publish, hands the
\* message to nobody and returns Int(0); and PUBSUB CHANNELS returns as a
\* Vector of BulkStr exactly the keys that match the pattern and hold a
\* Channel with a subscriber, so never that key.
C15_CanalVacio ==
    [][\A c \in Clients :
        /\ (pc[c] = "canal_guardar" /\ pc'[c] # pc[c]
                /\ a_ejecutar[c] = "unsubscribe" /\ intacto[c]) =>
              LET k == loc[c].clave[1] IN
              /\ bdd'[k].t = "Canal"
              /\ Elementos(bdd[k].subs) \subseteq {c} => bdd'[k] = Canal(<<>>)
        /\ (pc[c] \in {"idle", "numsub_leer"} /\ pc'[c] # pc[c]
                /\ a_ejecutar'[c] = "pubsub"
                /\ comando'[c].clave = <<NUMSUB>>) =>
              LET args == comando'[c].args
                  pos  == IF pc[c] = "idle" THEN 2 ELSE comando[c].pos
                  van  == IF pc[c] = "idle" THEN <<>> ELSE loc[c].res.v
              IN  IF pos > Len(args)
                  THEN pc'[c] = "responder" /\ resultado'[c] = Vector(van)
                  ELSE bdd[args[pos]] = Canal(<<>>) =>
                          /\ pc'[c] = "numsub_leer"
                          /\ loc'[c].res = Vector(Append(van, ResInt(0)))
        /\ (pc[c] = "idle" /\ pc'[c] # pc[c] /\ a_ejecutar'[c] = "publish"
                /\ Len(comando'[c].args) = 2
                /\ bdd[comando'[c].args[1]] = Canal(<<>>)) =>
              pc'[c] = "publicar" /\ loc'[c].canal = <<>>
        /\ (pc[c] = "publicar" /\ pc'[c] # pc[c] /\ loc[c].canal = <<>>) =>
              /\ pc'[c] = "responder"
              /\ resultado'[c] = ResInt(0)
              /\ entregas' = entregas
        /\ (pc[c] = "idle" /\ pc'[c] # pc[c] /\ a_ejecutar'[c] = "pubsub"
                /\ comando'[c].clave = <<CHANNELS>>
                /\ Len(comando'[c].args) = 2) =>
              /\ pc'[c] = "responder"
              /\ resultado'[c].r = "Vector"
              /\ Len(resultado'[c].v) = Cardinality(Elementos(resultado'[c].v))
              /\ Elementos(resultado'[c].v) =
                    {BulkStr(k) : k \in
                        {j \in Keys : /\ bdd[j].t = "Canal"
                                      /\ bdd[j].subs # <<>>
                                      /\ \/ comando'[c].args[2] = <<"*">>
                                         \/ comando'[c].args[2] = j}}
              /\ \A k \in Keys : bdd[k] = Canal(<<>>) =>
                    BulkStr(k) \notin Elementos(resultado'[c].v)]_vars

\* after the only subscriber of b unsubscribed, PUBSUB NUMSUB b has returned
\* the Vector of Int(0), and b still holds the empty Channel
C15_Witness ==
    \E c \in Clients :
        /\ pc[c] = "responder"
        /\ a_ejecutar[c] = "pubsub"
        /\ comando[c].args = <<NUMSUB, <<"b">>>>
        /\ resultado[c] = Vector(<<ResInt(0)>>)
        /\ bdd[<<"b">>] = Canal(<<>>)

\* the loop of persistir takes an Info in this step
TomaInfo ==
    /\ recv("Info")
    /\ buzon' = Tail(buzon) \/ ~vivo'

\* C16: on an Info, persistir writes the snapshot if and only if at least
\* the interval has passed since the last write that succeeded (since the
\* creation of the actor before the first), and its timer starts again only
\* when it has written the snapshot; an Info that comes earlier is dropped,
\* with the file and the timer as they were.
C16_Intervalo ==
    [][TomaInfo =>
        IF reloj - exito.instante >= Intervalo
        THEN /\ ultimo' # "descartado"
             /\ instante' = IF ultimo' = "escrito" THEN reloj ELSE instante
        ELSE /\ ultimo' = "descartado"
             /\ disco' = disco
             /\ instante' = instante]_vars

\* the entries of a snapshot that a restore brings back: those that are
\* alive and hold a String, a List or a Set
Vivos(a_persistir) ==
    [k \in {j \in DOMAIN a_persistir :
               valor_get(a_persistir[j]).t \in {"Str", "Lista", "Set"}} |->
        [v |-> a_persistir[k].v, tiempo |-> a_persistir[k].tiempo,
         vencido |-> FALSE]]

\* C17: while the actor runs, the store is at last as the last snapshot that
\* was written in full: a snapshot the interval gate drops is written later.
C17_Coalescido == <>[](vivo => Vivos(exito.tabla) = Vivos(tabla))

\* C18: after a write that wrote all its lines the file holds the lines of
\* the written snapshot and nothing else, and a restore of it brings back
\* no key that the snapshot does not have.
C18_ArchivoEntero ==
    [][(TomaInfo /\ ultimo' = "escrito") =>
          /\ \E vector \in Vectores(Head(buzon).a_persistir) :
                disco'[archivo] = Bytes(vector)
          /\ DOMAIN levantar_tabla(disco'[archivo]).hashmap
                \subseteq DOMAIN Head(buzon).a_persistir]_vars

\* C19: a snapshot written in full to a file that was empty is restored as
\* the map of its live String, List and Set entries, each with its variant,
\* its contents and its expiration.
C19_IdaYVuelta ==
    [][(TomaInfo /\ ultimo' = "escrito" /\ disco[archivo] = <<>>) =>
          levantar_tabla(disco'[archivo]) =
              [panic |-> FALSE,
               hashmap |-> Vivos(Head(buzon).a_persistir)]]_vars

\* C20: a write that cannot open the file or cannot write its lines ends the
\* loop of persistir; and with the loop ended, a mutation of the store
\* completes and its notification queues nothing.
C20_FalloTermina ==
    [][/\ (TomaInfo /\ ultimo' \in {"no_abre", "incompleto"}) => ~vivo'
       /\ (~vivo /\ tabla' # tabla) => (buzon' = buzon /\ ~vivo')]_vars

\* the actor takes a message: the queue gets shorter
Toma == vivo /\ Len(buzon') < Len(buzon)

\* C21: the messages leave the mailbox in the order they came in; an
\* ArchivoAPersistir at its head is taken whatever the timer says, sets the
\* path, writes nothing and leaves the timer alone; a file changes only when
\* an Info is taken, and it is the file of the path set last.
C21_CambioDeArchivo ==
    [][/\ Len(buzon') > Len(buzon) =>
              SubSeq(buzon', 1, Len(buzon)) = buzon
       /\ (Toma /\ vivo') => buzon' = Tail(buzon)
       /\ (Toma /\ Head(buzon).m = "ArchivoAPersistir") =>
              /\ archivo' = Head(buzon).a
              /\ disco' = disco
              /\ instante' = instante
              /\ vivo'
       /\ archivo' # archivo =>
              (Toma /\ Head(buzon).m = "ArchivoAPersistir")
       /\ \A a \in Archivos :
              disco'[a] # disco[a] =>
                 (Toma /\ Head(buzon).m = "Info" /\ a = archivo)]_vars

\* a snapshot went to the new path after a change of path that came before
\* the interval was over, and none went to the old path
C21_Witness ==
    /\ archivo = "otro.rdb"
    /\ disco["otro.rdb"] # <<>>
    /\ disco["dump.rdb"] = <<>>
    /\ exito.instante = Intervalo

\* C22: the loop ends when it takes Cerrar, whatever is queued behind it,
\* and ends when no Sender is left; once it has ended nothing is taken, no
\* file is written and the path and the timer stay; and it does end once a
\* Cerrar is queued or the Senders are gone.
C22_Termina ==
    /\ [][/\ (Toma /\ Head(buzon).m = "Cerrar") => ~vivo'
          /\ ~vivo => /\ ~vivo'
                       /\ buzon' = buzon
                       /\ disco' = disco
                       /\ archivo' = archivo
                       /\ instante' = instante]_vars
    /\ (\E i \in 1..Len(buzon) : buzon[i].m = "Cerrar") ~> ~vivo
    /\ ~emisores ~> ~vivo

\* the loop ended at a Cerrar that had a message queued behind it
C22_Witness ==
    /\ ~vivo
    /\ fin.por = "Cerrar"
    /\ fin.detras > 0

\* the idle window of the handle is over: a timeout is set and more than it
\* has gone by since the last message
PasoElTimeout ==
    /\ cliente.timeout # <<>>
    /\ reloj - cliente.ultimo_mensaje > cliente.timeout[1]

\* C23, as stated: esta_conectado says disconnected when the idle window is
\* over, when the peek yields zero bytes or when there is no socket, and
\* connected otherwise.
C23_EstaConectado ==
    [][conectado' # conectado =>
          conectado'.valor =
             ~(PasoElTimeout \/ enchufe = "cerrado" \/ ~cliente.socket)]_vars

\* C23, amended: esta_conectado says disconnected when the idle window is
\* over, when the peek yields zero bytes or fails, or when there is no
\* socket, and connected otherwise; a handle made with timeout 0 is never
\* disconnected for being idle.
C23_EstaConectadoOFalla ==
    [][conectado' # conectado =>
          /\ conectado'.valor =
                ~(PasoElTimeout \/ enchufe \in {"cerrado", "error"}
                    \/ ~cliente.socket)
          /\ (cliente.timeout = <<>> /\ enchufe = "datos" /\ cliente.socket)
                => conectado'.valor]_vars

\* a handle with a socket and bytes to read was found disconnected because
\* more than its timeout had gone by since its last message
C23_Witness ==
    /\ conectado.n = 1
    /\ ~conectado.valor
    /\ enchufe = "datos"
    /\ cliente.socket
    /\ PasoElTimeout

\* C24: PUBLISH clones the roster of the channel with the lock held, gives
\* the lock back, and hands the message to the subscribers of the clone
\* only then; none of its steps changes the store.
C24_PublishSinCandado ==
    [][\A c \in Clients :
          /\ (pc[c] = "idle" /\ pc'[c] = "publish_soltar") =>
                /\ candado' = c
                /\ \E k \in DOMAIN tabla :
                      /\ valor_get(tabla[k]).t = "Canal"
                      /\ loc'[c].canal = valor_get(tabla[k]).subs
                /\ entregas' = entregas
                /\ tabla' = tabla
          /\ (pc[c] = "publish_soltar" /\ pc'[c] # "publish_soltar") =>
                /\ entregas' = entregas
                /\ tabla' = tabla
          /\ (pc[c] = "publicar" /\ pc'[c] # "publicar") =>
                /\ candado # c
                /\ entregas' = publicar(loc[c].canal, Mensaje, entregas)
                /\ tabla' = tabla
          /\ entregas' # entregas =>
                \E d \in Clients : pc[d] = "publicar" /\ candado # d]_vars

\* a PUBLISH handed its message to the subscriber of a channel while the
\* other thread held the lock, and the channel is in the store as it was
C24_Witness ==
    /\ entregas[1] = <<Mensaje>>
    /\ candado # 0
    /\ \E k \in DOMAIN tabla : tabla[k] = no_expirable(Canal(<<1>>))

\* C25: when a thread notifies the observers of a mutation, the store
\* holds the mutation and the thread holds the lock no more.
C25_NotificaSinCandado ==
    [][\A c \in Clients :
          (pc[c] = "actualizar" /\ pc'[c] = "soltar") =>
             /\ historia[loc[c].sello] = loc[c].clon
             /\ candado # c]_vars

\* C26: a thread that is to notify the observers can do it, whatever the
\* actor is doing and also when its loop has ended; a thread that holds
\* the lock has a step to take, so that it gets to give the lock back; and
\* the actor takes its next message whoever holds the lock.
C26_SinBloqueo ==
    /\ \A c \in Clients :
          /\ pc[c] = "actualizar" => ENABLED Actualizar(c)
          /\ candado = c => ENABLED Hilo(c)
    /\ (vivo /\ buzon # <<>>) => ENABLED Persistir

\* a thread holds the lock and is to notify while the loop of the actor
\* has ended
C26_Witness ==
    \E c \in Clients : pc[c] = "actualizar" /\ candado = c /\ ~vivo

\* C30: the snapshot of every Info the actor writes is a map the store
\* held, and no message sent before it carried a later map of the store.
C30_EnOrden ==
    [][(TomaInfo /\ Toca) =>
          LET i == Len(enviados) - Len(buzon) + 1 IN
          /\ historia[enviados[i]] = Head(buzon).a_persistir
          /\ \A j \in 1..(i - 1) : enviados[j] <= enviados[i]]_vars

\* the actor has written the map the store holds after two mutations, a
\* time after it wrote an earlier one
C30_Witness ==
    /\ Len(historia) = 3
    /\ Len(enviados) = 2
    /\ exito = [instante |-> 2, tabla |-> historia[3]]
    /\ historia[2] # historia[3]
    /\ buzon = <<>>

\* the line ends with the pair EX:<n>, after a key and a payload
TerminaEnEx(elemento) ==
    /\ Len(elemento) >= 5
    /\ elemento[Len(elemento) - 1] = EX
    /\ parse_u64(elemento[Len(elemento)]) # <<>>

\* the values C27 allows a line of these tokens to be restored as: the
\* variant of the first token, the payload the tokens from the third on
\* (with or without the pair EX:<n> the line ends with), expirable if and
\* only if the line ends with that pair
Restauradas(elemento) ==
    LET n == Len(elemento)
        cargas == IF TerminaEnEx(elemento)
                  THEN {SubSeq(elemento, 3, n - 2), SubSeq(elemento, 3, n)}
                  ELSE {SubSeq(elemento, 3, n)}
        tipos == {CASE elemento[1] = STRING_ -> Str(carga[1])
                    [] elemento[1] = LIST -> Lista(carga)
                    [] OTHER -> Conjunto({carga[j] : j \in 1..Len(carga)}) :
                  carga \in cargas}
    IN  IF TerminaEnEx(elemento)
        THEN {expirable(v, parse_u64(elemento[n])[1]) : v \in tipos}
        ELSE {no_expirable(v) : v \in tipos}

\* C27: the restore gives the empty store for a file with nothing in it,
\* and for a file of one line the store with the key of its second token
\* under a value of the variant of its first token, whatever words the key
\* and the payload are, expirable exactly when the line ends with EX:<n>.
C27_Levantar ==
    levantado # "no" =>
        /\ levantado = "si"
        /\ LET ls == lines(disco[archivo]) IN
           IF ls = <<>> THEN tabla = <<>>
           ELSE LET elemento == split(ls[1], SEPARADOR) IN
                /\ DOMAIN tabla = {elemento[2]}
                /\ tabla[elemento[2]] \in Restauradas(elemento)

\* line is the record C28 gives the entry of key k with Valor val: the tag
\* of its variant, the key, the value or the elements (of a List in their
\* order, of a Set each once), and EX and the seconds it has left exactly
\* when it expires; for a Channel and for an entry that has expired, the
\* empty line
EsRegistro(line, k, val) ==
    LET elemento == split(line, SEPARADOR)
        n == Len(elemento)
        ex == IF val.tiempo = <<>> THEN <<>>
              ELSE <<EX, to_string(val.tiempo[1])>>
        carga == SubSeq(elemento, 3, n - Len(ex))
    IN  IF val.vencido \/ val.v.t \notin {"Str", "Lista", "Set"}
        THEN line = <<>>
        ELSE /\ n >= 2 + Len(ex)
             /\ elemento[2] = k
             /\ SubSeq(elemento, n - Len(ex) + 1, n) = ex
             /\ CASE val.v.t = "Str" ->
                        elemento[1] = STRING_ /\ carga = <<val.v.s>>
                  [] val.v.t = "Lista" ->
                        elemento[1] = LIST /\ carga = val.v.l
                  [] OTHER ->
                        /\ elemento[1] = SET
                        /\ Len(carga) = Cardinality(val.v.m)
                        /\ {carga[j] : j \in 1..Len(carga)} = val.v.m

\* C28: a write that writes all its lines puts at the start of the file
\* one line for every entry of the snapshot, each entry's line its record.
C28_Registros ==
    [][(TomaInfo /\ ultimo' = "escrito") =>
          LET a_persistir == Head(buzon).a_persistir
              n == Cardinality(DOMAIN a_persistir)
              escritas == split(disco'[archivo], "\n")
          IN  /\ Len(escritas) > n
              /\ \E q \in Ordenes(DOMAIN a_persistir) :
                    \A i \in 1..n :
                       EsRegistro(escritas[i], q[i], a_persistir[q[i]])]_vars

\* the snapshot of an expirable List and a Channel has been written: the
\* record of the List with its time to live, and an empty line
C28_Witness ==
    /\ ultimo = "escrito"
    /\ exito.tabla = (<<"a">> :> expirable(Lista(<<<<"x">>>>), 5)
                        @@ <<"b">> :> no_expirable(Canal(<<1>>)))
    /\ disco["dump.rdb"] =
          Une(<<LIST, <<"a">>, <<"x">>, EX, <<"5">>>>, SEPARADOR)
              \o <<"\n", "\n">>

\* C29: when the two clients have run GETDEL on the same key and no other
\* command has run, at most one of them has the value as its reply.
C29_GetdelUnoSolo ==
    (/\ hechos = 2
     /\ \A c \in Clients :
           /\ pc[c] = "responder"
           /\ a_ejecutar[c] = "getdel"
           /\ comando[c].args = <<<<"a">>>>)
       => Cardinality({c \in Clients : resultado[c].r = "BulkStr"}) <= 1

\* C31: a SUBSCRIBE or UNSUBSCRIBE that returns Error("WrongType ..") at
\* its i-th key leaves the store as it is at that moment: the keys before
\* the i-th (no other thread having changed the store since the command
\* started) hold Channels with the caller in their roster after SUBSCRIBE
\* and out of it after UNSUBSCRIBE; and a save of the command changes the
\* key of the turn it belongs to and no other, so that the i-th key and the
\* keys after it are as they were.
C31_SinVueltaAtras ==
    [][\A c \in Clients :
        /\ \A fn \in {"subscribe", "unsubscribe"} :
              (/\ Vuelta(c, fn)
               /\ pc'[c] = "responder"
               /\ resultado'[c] = Error(WrongTypeCanal)) =>
                 LET args == comando'[c].args
                     i == Cursor(c)
                 IN  /\ bdd' = bdd
                     /\ bdd[args[i]].t \notin {"Canal"}
                     /\ intacto[c] =>
                           \A j \in 1..(i - 1) :
                              /\ bdd[args[j]].t = "Canal"
                              /\ EnCanal(bdd[args[j]].subs, c)
                                    <=> fn = "subscribe"
        /\ (pc[c] = "canal_guardar" /\ pc'[c] # pc[c]) =>
              LET args == comando[c].args
                  j == comando[c].pos - 1
              IN  /\ loc[c].clave = <<args[j]>>
                  /\ \A k \in Keys \ {args[j]} : bdd'[k] = bdd[k]]_vars

\* UNSUBSCRIBE a b, with the caller subscribed to a and b holding a list,
\* has taken the caller out of a and returned the error at b, which still
\* holds the list
C31_Witness ==
    \E c \in Clients :
        /\ pc[c] = "responder"
        /\ a_ejecutar[c] = "unsubscribe"
        /\ comando[c].args = <<<<"a">>, <<"b">>>>
        /\ resultado[c] = Error(WrongTypeCanal)
        /\ bdd[<<"a">>] = Canal(<<>>)
        /\ bdd[<<"b">>] = Lista(<<<<"x">>>>)
        /\ hechos = 2

\* C32: the step of PUBLISH that delivers writes the message once, after
\* what each had received, to every subscriber of the roster whose
\* enviar_mensaje succeeds, whether or not that of another subscriber
\* fails, and to no one else; the reply is Int(the size of the roster),
\* failing subscribers included, and no Error.
C32_FalloTolerado ==
    [][\A c \in Clients :
        (pc[c] = "publicar" /\ pc'[c] # pc[c]) =>
           LET canal == loc[c].canal
               mensaje == loc[c].param[1]
           IN  /\ \A d \in Clients :
                      entregas'[d] =
                         IF EnCanal(canal, d) /\ d \notin rotos
                         THEN Append(entregas[d], mensaje)
                         ELSE entregas[d]
               /\ pc'[c] = "responder"
               /\ resultado'[c] = ResInt(Len(canal))
               /\ resultado'[c].r # "Error"]_vars

\* a PUBLISH to a channel of two subscribers, the first of which cannot be
\* written to, has reached the second and replied Int(2)
C32_Witness ==
    \E c \in Clients :
        /\ pc[c] = "responder"
        /\ a_ejecutar[c] = "publish"
        /\ resultado[c] = ResInt(2)
        /\ bdd[<<"a">>] = Canal(<<1, 2>>)
        /\ rotos = {1}
        /\ entregas[1] = <<>>
        /\ Len(entregas[2]) = 1

====
